---- MODULE Spec2Model ----
(***************************************************************************)
(* Cluster-topology inference of the two topology scripts:                 *)
(*   graphviz script : src/k8s_starwars_topology.py                        *)
(*   draw.io script  : src/k8s_starwars_topology_drawio.py                 *)
(* Text is a sequence of one-character strings, so that the regular        *)
(* expressions of the scripts are modelled by what they match.             *)
(***************************************************************************)
EXTENDS Integers, Sequences, FiniteSets, TLC

(***************************************************************************)
(* Characters and text helpers                                             *)
(***************************************************************************)
LowerLetters ==
  {"a","b","c","d","e","f","g","h","i","j","k","l","m",
   "n","o","p","q","r","s","t","u","v","w","x","y","z"}

UpperLetters ==
  {"A","B","C","D","E","F","G","H","I","J","K","L","M",
   "N","O","P","Q","R","S","T","U","V","W","X","Y","Z"}

Digits == {"0","1","2","3","4","5","6","7","8","9"}

\* str.lower() on one character
LowerMap ==
  [c \in UpperLetters |->
     CASE c = "A" -> "a" [] c = "B" -> "b" [] c = "C" -> "c" [] c = "D" -> "d"
       [] c = "E" -> "e" [] c = "F" -> "f" [] c = "G" -> "g" [] c = "H" -> "h"
       [] c = "I" -> "i" [] c = "J" -> "j" [] c = "K" -> "k" [] c = "L" -> "l"
       [] c = "M" -> "m" [] c = "N" -> "n" [] c = "O" -> "o" [] c = "P" -> "p"
       [] c = "Q" -> "q" [] c = "R" -> "r" [] c = "S" -> "s" [] c = "T" -> "t"
       [] c = "U" -> "u" [] c = "V" -> "v" [] c = "W" -> "w" [] c = "X" -> "x"
       [] c = "Y" -> "y" [] c = "Z" -> "z"]

LowerChar(c) == IF c \in UpperLetters THEN LowerMap[c] ELSE c

\* str.lower()
Lower(s) == [i \in 1..Len(s) |-> LowerChar(s[i])]

\* lit occurs in s at index i (case-sensitive)
LitAt(s, i, lit) ==
  /\ i >= 1
  /\ i + Len(lit) - 1 <= Len(s)
  /\ \A k \in 1..Len(lit) : s[i + k - 1] = lit[k]

\* lit (lower case) occurs in s at index i under re.IGNORECASE
LitAtI(s, i, lit) ==
  /\ i >= 1
  /\ i + Len(lit) - 1 <= Len(s)
  /\ \A k \in 1..Len(lit) : LowerChar(s[i + k - 1]) = lit[k]

\* Python `lit in s`
Contains(s, lit) == \E i \in 1..(Len(s) + 1) : LitAt(s, i, lit)

\* first index >= i whose character is outside class (Len(s)+1 if none):
\* the end of a greedy run of a character class
RunEnd(s, i, class) ==
  CHOOSE j \in i..(Len(s) + 1) :
    /\ \A k \in i..(j - 1) : s[k] \in class
    /\ (j = Len(s) + 1 \/ s[j] \notin class)

SetMax(S) == CHOOSE m \in S : \A x \in S : x <= m

DigitVal(c) ==
  CASE c = "0" -> 0 [] c = "1" -> 1 [] c = "2" -> 2 [] c = "3" -> 3
    [] c = "4" -> 4 [] c = "5" -> 5 [] c = "6" -> 6 [] c = "7" -> 7
    [] c = "8" -> 8 [] c = "9" -> 9

RECURSIVE ParseInt(_)
\* int() of a non-empty digit string
ParseInt(ds) ==
  IF Len(ds) = 0 THEN 0
  ELSE 10 * ParseInt(SubSeq(ds, 1, Len(ds) - 1)) + DigitVal(ds[Len(ds)])

\* str() of a small natural number
DigitChar(d) ==
  CASE d = 0 -> "0" [] d = 1 -> "1" [] d = 2 -> "2" [] d = 3 -> "3"
    [] d = 4 -> "4" [] d = 5 -> "5" [] d = 6 -> "6" [] d = 7 -> "7"
    [] d = 8 -> "8" [] d = 9 -> "9"

RECURSIVE IntToStr(_)
IntToStr(n) ==
  IF n < 10 THEN <<DigitChar(n)>>
  ELSE Append(IntToStr(n \div 10), DigitChar(n % 10))

(***************************************************************************)
(* Literals of the patterns                                                *)
(***************************************************************************)
HttpLit == <<"h","t","t","p">>
HttpsLit == <<"h","t","t","p","s">>
SchemeSep == <<":","/","/">>
SvcSuffix ==
  <<".","s","v","c",".","c","l","u","s","t","e","r",".","l","o","c","a","l">>
KeycloakLit == <<"k","e","y","c","l","o","a","k">>
AuthLit == <<"a","u","t","h">>

\* the port of a reference that names none
DefaultPort == 80

\* match.group(3) or '80' in the draw.io script
DrawioDefaultPort == <<"8","0">>

\* [a-zA-Z0-9-]
LabelChars == LowerLetters \cup UpperLetters \cup Digits \cup {"-"}
\* [a-zA-Z0-9\-.]
HostChars == LabelChars \cup {"."}
\* [:\d]
ColonDigits == Digits \cup {":"}

(***************************************************************************)
(* URL Extractor, graphviz script                                          *)
(***************************************************************************)
\* index after `http[s]?://` matched at i, 0 when it does not match there
SchemeEnd(s, i) ==
  IF ~LitAt(s, i, HttpLit) THEN 0
  ELSE LET j == IF LitAt(s, i + 4, <<"s">>) THEN i + 5 ELSE i + 4
       IN  IF LitAt(s, j, SchemeSep) THEN j + 3 ELSE 0

\* the pattern without its cluster suffix: any http(s) host matches
UrlEndAtAnyHost(s, i) ==
  LET p == SchemeEnd(s, i)
  IN  IF p = 0 THEN 0
      ELSE LET e == RunEnd(s, p, HostChars)
           IN  IF e = p THEN 0 ELSE RunEnd(s, e, ColonDigits)

\* end (exclusive) of the match of
\*   http[s]?://[a-zA-Z0-9\-.]+\.svc\.cluster\.local[:\d]*
\* starting at i, 0 when there is none
UrlEndAt(s, i) ==
  LET p == SchemeEnd(s, i)
  IN  IF p = 0 THEN 0
      ELSE LET e  == RunEnd(s, p, HostChars)
               Ls == {L \in (p + 1)..(e - 1) : LitAt(s, L, SvcSuffix)}
           IN  IF Ls = {} THEN 0
               ELSE RunEnd(s, SetMax(Ls) + Len(SvcSuffix), ColonDigits)

RECURSIVE FindAllFrom(_, _)
\* re.findall(url_pattern, config_str) from index i on
FindAllFrom(s, i) ==
  IF i > Len(s) THEN <<>>
  ELSE LET e == UrlEndAt(s, i)
       IN  IF e = 0 THEN FindAllFrom(s, i + 1)
           ELSE <<SubSeq(s, i, e - 1)>> \o FindAllFrom(s, e)

\* extract_urls_from_config(config) for a str config
extract_urls_from_config(config) == FindAllFrom(config, 1)

\* the optional port group (?::(\d+))? at index q: the digits, <<>> when absent
PortDigitsAt(s, q) ==
  IF LitAt(s, q, <<":">>)
  THEN SubSeq(s, q + 1, RunEnd(s, q + 1, Digits) - 1)
  ELSE <<>>

\* the decomposition with the default port following the scheme (443 for https)
ServiceMatchAtPortByScheme(s, i) ==
  LET p == SchemeEnd(s, i)
  IN  IF p = 0 THEN [ok |-> FALSE]
      ELSE LET e  == RunEnd(s, p, HostChars)
               As == {a \in (p + 1)..(e - 1) :
                        /\ s[a] = "."
                        /\ \E L \in (a + 2)..(e - 1) : LitAt(s, L, SvcSuffix)}
           IN  IF As = {} THEN [ok |-> FALSE]
               ELSE LET a  == SetMax(As)
                        L  == SetMax({x \in (a + 2)..(e - 1) : LitAt(s, x, SvcSuffix)})
                        ds == PortDigitsAt(s, L + Len(SvcSuffix))
                    IN  [ok |-> TRUE,
                         service_name |-> SubSeq(s, p, a - 1),
                         namespace |-> SubSeq(s, a + 1, L - 1),
                         port |-> IF Len(ds) > 0 THEN ParseInt(ds)
                                  ELSE IF LitAt(s, i, HttpsLit) THEN 443
                                  ELSE DefaultPort]

\* the match of
\*   https?://([a-zA-Z0-9\-.]+)\.([a-zA-Z0-9\-.]+)\.svc\.cluster\.local(?::(\d+))?
\* starting at i: both groups are greedy, the first one first
ServiceMatchAt(s, i) ==
  LET p == SchemeEnd(s, i)
  IN  IF p = 0 THEN [ok |-> FALSE]
      ELSE LET e  == RunEnd(s, p, HostChars)
               As == {a \in (p + 1)..(e - 1) :
                        /\ s[a] = "."
                        /\ \E L \in (a + 2)..(e - 1) : LitAt(s, L, SvcSuffix)}
           IN  IF As = {} THEN [ok |-> FALSE]
               ELSE LET a  == SetMax(As)
                        L  == SetMax({x \in (a + 2)..(e - 1) : LitAt(s, x, SvcSuffix)})
                        ds == PortDigitsAt(s, L + Len(SvcSuffix))
                    IN  [ok |-> TRUE,
                         service_name |-> SubSeq(s, p, a - 1),
                         namespace |-> SubSeq(s, a + 1, L - 1),
                         port |-> IF Len(ds) > 0 THEN ParseInt(ds) ELSE DefaultPort]

\* extract_service_from_url(url): re.search takes the leftmost match
extract_service_from_url(url) ==
  LET Is == {i \in 1..Len(url) : ServiceMatchAt(url, i).ok}
  IN  IF Is = {} THEN [ok |-> FALSE]
      ELSE ServiceMatchAt(url, CHOOSE i \in Is : \A k \in Is : i <= k)

\* 'HTTPS' if 'https' in url.lower() else 'HTTP'
ProtocolOf(url) == IF Contains(Lower(url), HttpsLit) THEN "HTTPS" ELSE "HTTP"

\* 'keycloak' in name.lower() or 'auth' in name.lower()
IsKeycloakName(name) ==
  Contains(Lower(name), KeycloakLit) \/ Contains(Lower(name), AuthLit)

(***************************************************************************)
(* URL Extractor, draw.io script (re.IGNORECASE)                           *)
(***************************************************************************)
\* index after `https?://` matched at i ignoring case, 0 when no match
SchemeEndI(s, i) ==
  IF ~LitAtI(s, i, HttpLit) THEN 0
  ELSE LET j == IF LitAtI(s, i + 4, <<"s">>) THEN i + 5 ELSE i + 4
       IN  IF LitAt(s, j, SchemeSep) THEN j + 3 ELSE 0

\* s[p..q-1] matches [a-zA-Z0-9-]+(?:\.[a-zA-Z0-9-]+)*
DottedLabels(s, p, q) ==
  /\ q > p
  /\ \A k \in p..(q - 1) : s[k] \in HostChars
  /\ s[p] # "."
  /\ s[q - 1] # "."
  /\ \A k \in p..(q - 2) : ~(s[k] = "." /\ s[k + 1] = ".")

\* end of the optional group (?::[0-9]+)? at index q
PortEndAt(s, q) ==
  IF LitAt(s, q, <<":">>) /\ RunEnd(s, q + 1, Digits) > q + 1
  THEN RunEnd(s, q + 1, Digits)
  ELSE q

\* end (exclusive) of the match of
\*   https?://[a-zA-Z0-9-]+(?:\.[a-zA-Z0-9-]+)*\.svc\.cluster\.local(?::[0-9]+)?
\* starting at i, 0 when there is none
DrawioUrlEndAt(s, i) ==
  LET p == SchemeEndI(s, i)
  IN  IF p = 0 THEN 0
      ELSE LET Qs == {q \in (p + 1)..Len(s) :
                        LitAtI(s, q, SvcSuffix) /\ DottedLabels(s, p, q)}
           IN  IF Qs = {} THEN 0
               ELSE PortEndAt(s, SetMax(Qs) + Len(SvcSuffix))

RECURSIVE DrawioFindAllFrom(_, _)
DrawioFindAllFrom(s, i) ==
  IF i > Len(s) THEN <<>>
  ELSE LET e == DrawioUrlEndAt(s, i)
       IN  IF e = 0 THEN DrawioFindAllFrom(s, i + 1)
           ELSE <<SubSeq(s, i, e - 1)>> \o DrawioFindAllFrom(s, e)

\* extract_urls_from_config(data) of the draw.io script
drawio_extract_urls_from_config(data) == DrawioFindAllFrom(data, 1)

\* re.match(r'https?://([a-zA-Z0-9-]+)\.([a-zA-Z0-9-]+)\.svc\.cluster\.local
\*            (?::([0-9]+))?', url, re.IGNORECASE), with target_port = group(3) or '80'
drawio_match_url(url) ==
  LET p == SchemeEndI(url, 1)
  IN  IF p = 0 THEN [ok |-> FALSE]
      ELSE LET r1 == RunEnd(url, p, LabelChars)
           IN  IF r1 = p \/ ~LitAt(url, r1, <<".">>) THEN [ok |-> FALSE]
               ELSE LET r2 == RunEnd(url, r1 + 1, LabelChars)
                    IN  IF r2 = r1 + 1 \/ ~LitAtI(url, r2, SvcSuffix)
                        THEN [ok |-> FALSE]
                        ELSE LET q  == r2 + Len(SvcSuffix)
                                 ds == SubSeq(url, q + 1, PortEndAt(url, q) - 1)
                             IN  [ok |-> TRUE,
                                  target_service |-> SubSeq(url, p, r1 - 1),
                                  target_namespace |-> SubSeq(url, r1 + 1, r2 - 1),
                                  target_port |-> IF Len(ds) > 0 THEN ds
                                                  ELSE DrawioDefaultPort]

(***************************************************************************)
(* Inventory records.  An optional JSON key is a sequence of length 0      *)
(* (key absent) or 1 (key present, holding the value).                     *)
(***************************************************************************)
Absent == <<>>
Some(v) == <<v>>
Has(opt) == Len(opt) > 0
\* dict.get(key, default)
Get(opt, default) == IF Has(opt) THEN opt[1] ELSE default

(***************************************************************************)
(* Health Classifier, graphviz script: the container loop of get_pod_info  *)
(***************************************************************************)
\* f"{reason}: {message}" of a waiting/terminated record, kept as its parts
FormatReason(st, default) == <<Get(st.reason, default), ": ", Get(st.message, "")>>

RECURSIVE StatusLoop(_, _, _)
\* the loop over container_statuses from index i with the values of
\* (unhealthy, status_reason) so far; it has no break
StatusLoop(css, i, acc) ==
  IF i > Len(css) THEN acc
  ELSE LET cs == css[i]
       IN  IF ~cs.ready
           THEN StatusLoop(css, i + 1,
                  [unhealthy |-> TRUE,
                   status_reason |->
                     IF Has(cs.waiting) THEN FormatReason(cs.waiting[1], "Unknown")
                     ELSE IF Has(cs.terminated)
                          THEN FormatReason(cs.terminated[1], "Terminated")
                          ELSE acc.status_reason])
           ELSE StatusLoop(css, i + 1, acc)

\* one item of get_pod_info: the health record and the list it is appended to
get_pod_info_item(item) ==
  LET pod_name  == Get(item.name, <<"u","n","k","n","o","w","n">>)
      namespace == Get(item.namespace, <<"d","e","f","a","u","l","t">>)
      pod_phase == Get(item.phase, "Unknown")
      r == StatusLoop(item.containerStatuses, 1,
                      [unhealthy |-> FALSE, status_reason |-> <<>>])
  IN  IF pod_phase # "Running" \/ r.unhealthy
      THEN [healthy |-> FALSE,
            pod |-> [name |-> pod_name, namespace |-> namespace,
                     phase |-> pod_phase, status_reason |-> r.status_reason]]
      ELSE [healthy |-> TRUE,
            pod |-> [name |-> pod_name, namespace |-> namespace,
                     containers |-> item.containers]]

(***************************************************************************)
(* Health Classifier, draw.io script: get_pod_status                       *)
(***************************************************************************)
\* what the condition loop returns for one condition, <<>> when it goes on
ConditionVerdict(c) ==
  IF c.type = "Ready" /\ c.status = "False"
  THEN <<"Not Ready", Get(c.reason, "Unknown")>>
  ELSE IF c.type = "PodScheduled" /\ c.status = "False"
  THEN <<"Unschedulable", Get(c.reason, "Unknown")>>
  ELSE IF c.type = "ContainersReady" /\ c.status = "False"
  THEN <<"Containers Not Ready", Get(c.reason, "Unknown")>>
  ELSE <<>>

\* what the container loop returns for one container status, <<>> when it goes on
ContainerVerdict(cs) ==
  IF cs.ready THEN <<>>
  ELSE LET state == Get(cs.state, [waiting |-> Absent, terminated |-> Absent])
       IN  IF Has(state.waiting)
           THEN <<Get(state.waiting[1].reason, "Unknown"),
                  Get(state.waiting[1].message, "")>>
           ELSE IF Has(state.terminated)
           THEN <<Get(state.terminated[1].reason, "Terminated"),
                  Get(state.terminated[1].message, "")>>
           ELSE <<>>

RECURSIVE FirstVerdict(_, _, _)
\* a loop that returns at the first element with a verdict
FirstVerdict(Verdict(_), xs, i) ==
  IF i > Len(xs) THEN <<>>
  ELSE IF Verdict(xs[i]) # <<>> THEN Verdict(xs[i])
  ELSE FirstVerdict(Verdict, xs, i + 1)

\* get_pod_status(pod): the pair (status, reason)
get_pod_status(pod) ==
  LET phase == Get(pod.phase, "Unknown")
      byCondition == FirstVerdict(ConditionVerdict, pod.conditions, 1)
      byContainer == FirstVerdict(ContainerVerdict, pod.containerStatuses, 1)
  IN  IF byCondition # <<>> THEN byCondition
      ELSE IF byContainer # <<>> THEN byContainer
      ELSE <<phase, "OK">>

\* main: pod_status not in ['Running', 'OK']
DrawioUnhealthy(pod_status) == pod_status \notin {"Running", "OK"}

(***************************************************************************)
(* Dependency inference, graphviz script: analyze_pod_interactions         *)
(***************************************************************************)
Dot == <<".">>
\* f"{name}.{namespace}"
\* the key with a hyphen between the two parts
KeyOfHyphen(name, namespace) == name \o <<"-">> \o namespace
KeyOf(name, namespace) == name \o Dot \o namespace

\* source_port = 8080  # Default
DefaultSourcePort == 8080

\* keys of the services dict, in insertion order
ServiceKeys(svcs) == {svcs[i].key : i \in 1..Len(svcs)}

\* the first port entry with a containerPort key, the default when there is none
SourcePort(container) ==
  LET ps == container.ports
      Is == {i \in 1..Len(ps) : Has(ps[i].containerPort)}
  IN  IF Is = {} THEN DefaultSourcePort
      ELSE ps[CHOOSE i \in Is : \A k \in Is : i <= k].containerPort[1]

\* ScanUrl with interactions.insert(0, interaction) in place of append
ScanUrlPrepend(acc, url, pod, container, svcs) ==
  LET m == extract_service_from_url(url)
  IN  IF ~m.ok THEN acc
      ELSE LET full_service_name == KeyOf(m.service_name, m.namespace)
           IN  IF full_service_name \notin ServiceKeys(svcs) THEN acc
               ELSE [interactions |->
                       <<[source |-> KeyOf(pod.name, pod.namespace),
                          source_port |-> SourcePort(container),
                          destination |-> full_service_name,
                          destination_port |-> m.port,
                          protocol |-> ProtocolOf(url)]>> \o acc.interactions,
                     keycloak_related |->
                       IF IsKeycloakName(m.service_name)
                       THEN Append(acc.keycloak_related, full_service_name)
                       ELSE acc.keycloak_related]

\* the body of `for url in urls` for one url: acc is (interactions, keycloak_related)
ScanUrl(acc, url, pod, container, svcs) ==
  LET m == extract_service_from_url(url)
  IN  IF ~m.ok THEN acc
      ELSE LET full_service_name == KeyOf(m.service_name, m.namespace)
           IN  IF full_service_name \notin ServiceKeys(svcs) THEN acc
               ELSE [interactions |->
                       Append(acc.interactions,
                         [source |-> KeyOf(pod.name, pod.namespace),
                          source_port |-> SourcePort(container),
                          destination |-> full_service_name,
                          destination_port |-> m.port,
                          protocol |-> ProtocolOf(url)]),
                     keycloak_related |->
                       IF IsKeycloakName(m.service_name)
                       THEN Append(acc.keycloak_related, full_service_name)
                       ELSE acc.keycloak_related]

RECURSIVE ScanUrls(_, _, _, _, _, _)
ScanUrls(acc, urls, i, pod, container, svcs) ==
  IF i > Len(urls) THEN acc
  ELSE ScanUrls(ScanUrl(acc, urls[i], pod, container, svcs),
                urls, i + 1, pod, container, svcs)

RECURSIVE ScanEnv(_, _, _, _, _)
\* for env in env_vars: value = env.get('value', '')
ScanEnv(acc, i, pod, container, svcs) ==
  IF i > Len(container.env) THEN acc
  ELSE ScanEnv(ScanUrls(acc,
                        extract_urls_from_config(Get(container.env[i].value, <<>>)),
                        1, pod, container, svcs),
               i + 1, pod, container, svcs)

RECURSIVE ScanContainers(_, _, _, _)
ScanContainers(acc, i, pod, svcs) ==
  IF i > Len(pod.containers) THEN acc
  ELSE ScanContainers(ScanEnv(acc, 1, pod, pod.containers[i], svcs),
                      i + 1, pod, svcs)

RECURSIVE ScanPods(_, _, _, _)
ScanPods(acc, ps, i, svcs) ==
  IF i > Len(ps) THEN acc
  ELSE ScanPods(ScanContainers(acc, 1, ps[i], svcs), ps, i + 1, svcs)

\* analyze_pod_interactions(pods, services): (interactions, keycloak_related)
analyze_pod_interactions(ps, svcs) ==
  ScanPods([interactions |-> <<>>, keycloak_related |-> <<>>], ps, 1, svcs)

\* members of a list
Range(xs) == {xs[i] : i \in 1..Len(xs)}

\* service_name.split('.', 1)
SplitFirstDot(key) ==
  LET Is == {i \in 1..Len(key) : key[i] = "."}
      d  == CHOOSE i \in Is : \A k \in Is : i <= k
  IN  IF Is = {} THEN <<key>>
      ELSE <<SubSeq(key, 1, d - 1), SubSeq(key, d + 1, Len(key))>>

\* f"unhealthy_{...}"
UnhealthyPrefix == <<"u","n","h","e","a","l","t","h","y","_">>

\* generate_topology_graph: the declared nodes and the edges of the digraph
generate_topology_graph(inter, svcs, unhealthy, kc) ==
  [service_nodes |->
     [i \in 1..Len(svcs) |->
        [name |-> svcs[i].key,
         label |-> SplitFirstDot(svcs[i].key),
         keycloak |-> svcs[i].key \in Range(kc)]],
   unhealthy_nodes |->
     [i \in 1..Len(unhealthy) |->
        [name |-> UnhealthyPrefix \o KeyOf(unhealthy[i].name, unhealthy[i].namespace),
         phase |-> unhealthy[i].phase,
         status_reason |-> unhealthy[i].status_reason]],
   edges |->
     [i \in 1..Len(inter) |->
        [source |-> inter[i].source, dest |-> inter[i].destination,
         source_port |-> inter[i].source_port,
         dest_port |-> inter[i].destination_port,
         protocol |-> inter[i].protocol]]]

\* services[f"{service_name}.{namespace}"] = {...}: a dict keeps the position of
\* a key it already holds
DictPut(d, entry) ==
  IF entry.key \in ServiceKeys(d)
  THEN [i \in 1..Len(d) |-> IF d[i].key = entry.key THEN entry ELSE d[i]]
  ELSE Append(d, entry)

\* one item of the loop of get_services
get_services_item(item) ==
  LET service_name == Get(item.name, <<"u","n","k","n","o","w","n">>)
      namespace == Get(item.namespace, <<"d","e","f","a","u","l","t">>)
  IN  [key |-> KeyOf(service_name, namespace),
       name |-> service_name, namespace |-> namespace]

(***************************************************************************)
(* Dependency inference, draw.io script: the loops of main                 *)
(***************************************************************************)
NotApplicable == <<"N","/","A">>

\* source_port = 'N/A'; if container_ports:
\*   source_port = str(container_ports[0].get('containerPort', 'N/A'))
DrawioSourcePort(container) ==
  IF Len(container.ports) = 0 THEN NotApplicable
  ELSE IF Has(container.ports[1].containerPort)
       THEN IntToStr(container.ports[1].containerPort[1])
       ELSE NotApplicable

\* if connection not in connections: connections.append(connection)
AppendNew(conns, connection) ==
  IF connection \in Range(conns) THEN conns ELSE Append(conns, connection)

\* the body of `for url in urls` of a container
DrawioScanUrl(conns, url, pod_name, pod_namespace, container) ==
  LET m == drawio_match_url(url)
  IN  IF ~m.ok THEN conns
      ELSE AppendNew(conns,
             [source_service |-> pod_name,
              source_namespace |-> pod_namespace,
              target_service |-> m.target_service,
              target_namespace |-> m.target_namespace,
              source_port |-> DrawioSourcePort(container),
              target_port |-> m.target_port,
              protocol |-> ProtocolOf(url)])

RECURSIVE DrawioScanUrls(_, _, _, _, _, _)
DrawioScanUrls(conns, urls, i, pod_name, pod_namespace, container) ==
  IF i > Len(urls) THEN conns
  ELSE DrawioScanUrls(
         DrawioScanUrl(conns, urls[i], pod_name, pod_namespace, container),
         urls, i + 1, pod_name, pod_namespace, container)

RECURSIVE DrawioScanTexts(_, _, _, _, _, _)
\* extraction over a list of text values: command and args tokens
DrawioScanTexts(conns, texts, i, pod_name, pod_namespace, container) ==
  IF i > Len(texts) THEN conns
  ELSE DrawioScanTexts(
         DrawioScanUrls(conns, drawio_extract_urls_from_config(texts[i]), 1,
                        pod_name, pod_namespace, container),
         texts, i + 1, pod_name, pod_namespace, container)

RECURSIVE DrawioScanEnv(_, _, _, _, _)
\* for env in env_vars: if 'value' in env
DrawioScanEnv(conns, i, pod_name, pod_namespace, container) ==
  IF i > Len(container.env) THEN conns
  ELSE DrawioScanEnv(
         IF Has(container.env[i].value)
         THEN DrawioScanUrls(conns,
                drawio_extract_urls_from_config(container.env[i].value[1]), 1,
                pod_name, pod_namespace, container)
         ELSE conns,
         i + 1, pod_name, pod_namespace, container)

\* the body of `for container in containers`: env, then command, then args
DrawioScanContainer(conns, pod_name, pod_namespace, container) ==
  LET afterEnv == DrawioScanEnv(conns, 1, pod_name, pod_namespace, container)
      afterCommand ==
        DrawioScanTexts(afterEnv, Get(container.command, <<>>), 1,
                        pod_name, pod_namespace, container)
  IN  DrawioScanTexts(afterCommand, Get(container.args, <<>>), 1,
                      pod_name, pod_namespace, container)

RECURSIVE DrawioScanContainers(_, _, _, _, _)
DrawioScanContainers(conns, containers, i, pod_name, pod_namespace) ==
  IF i > Len(containers) THEN conns
  ELSE DrawioScanContainers(
         DrawioScanContainer(conns, pod_name, pod_namespace, containers[i]),
         containers, i + 1, pod_name, pod_namespace)

\* the body of `for url in urls` of a configmap or secret value
DrawioConfigUrl(conns, url, config_item) ==
  LET m == drawio_match_url(url)
  IN  IF ~m.ok THEN conns
      ELSE AppendNew(conns,
             [source_service |-> KeyOf(config_item.name[1], config_item.namespace[1]),
              source_namespace |-> <<>>,
              target_service |-> m.target_service,
              target_namespace |-> m.target_namespace,
              source_port |-> NotApplicable,
              target_port |-> m.target_port,
              protocol |-> ProtocolOf(url)])

RECURSIVE DrawioConfigUrls(_, _, _, _)
DrawioConfigUrls(conns, urls, i, config_item) ==
  IF i > Len(urls) THEN conns
  ELSE DrawioConfigUrls(DrawioConfigUrl(conns, urls[i], config_item),
                        urls, i + 1, config_item)

RECURSIVE DrawioConfigData(_, _, _)
\* for key, value in data.items()
DrawioConfigData(conns, i, config_item) ==
  IF i > Len(config_item.data) THEN conns
  ELSE DrawioConfigData(
         DrawioConfigUrls(conns,
           drawio_extract_urls_from_config(config_item.data[i]), 1, config_item),
         i + 1, config_item)

(***************************************************************************)
(* create_drawio_diagram: the cells of the diagram                         *)
(***************************************************************************)
RECURSIVE DictKeys(_, _)
\* keys of a dict filled in the order of xs: a key keeps its first position
DictKeys(xs, i) ==
  IF i = 0 THEN <<>>
  ELSE LET before == DictKeys(xs, i - 1)
       IN  IF xs[i] \in Range(before) THEN before ELSE Append(before, xs[i])

\* list.index(x), from 0
IndexOf(xs, x) == (CHOOSE i \in 1..Len(xs) : xs[i] = x /\ \A k \in 1..(i - 1) : xs[k] # x) - 1

\* the source / target attribute of an edge cell
CellRef(key, positions, svcKeys) ==
  IF key \in Range(svcKeys)
  THEN <<"service", IndexOf(positions, key)>>
  ELSE <<"pod", IndexOf(positions, key) - Len(svcKeys)>>

create_drawio_diagram(conns, svcs, unhealthy) ==
  LET svcKeys == [i \in 1..Len(svcs) |-> KeyOf(svcs[i].name, svcs[i].namespace)]
      podKeys == [i \in 1..Len(unhealthy) |->
                    KeyOf(unhealthy[i].name, unhealthy[i].namespace)]
      positions == DictKeys(svcKeys \o podKeys, Len(svcKeys) + Len(podKeys))
      src(c) == KeyOf(c.source_service, c.source_namespace)
      tgt(c) == KeyOf(c.target_service, c.target_namespace)
      drawn == {i \in 1..Len(conns) :
                  src(conns[i]) \in Range(positions) /\ tgt(conns[i]) \in Range(positions)}
  IN  [service_cells |->
         [i \in 1..Len(svcs) |->
            [id |-> <<"service", i - 1>>,
             name |-> svcs[i].name, namespace |-> svcs[i].namespace,
             is_keycloak |-> IsKeycloakName(svcs[i].name)]],
       pod_cells |->
         [i \in 1..Len(unhealthy) |->
            [id |-> <<"pod", i - 1>>,
             name |-> unhealthy[i].name, namespace |-> unhealthy[i].namespace,
             status |-> unhealthy[i].status, reason |-> unhealthy[i].reason]],
       edge_cells |->
         {[id |-> <<"edge", i - 1>>,
           source |-> CellRef(src(conns[i]), positions, svcKeys),
           target |-> CellRef(tgt(conns[i]), positions, svcKeys),
           source_port |-> conns[i].source_port,
           target_port |-> conns[i].target_port,
           protocol |-> conns[i].protocol] : i \in drawn}]

(***************************************************************************)
(* Secret values: base64.b64decode(value).decode('utf-8')                  *)
(***************************************************************************)
B64Alphabet ==
  <<"A","B","C","D","E","F","G","H","I","J","K","L","M","N","O","P","Q","R","S","T","U","V","W","X","Y","Z",
    "a","b","c","d","e","f","g","h","i","j","k","l","m","n","o","p","q","r","s","t","u","v","w","x","y","z",
    "0","1","2","3","4","5","6","7","8","9","+","/">>

\* the printable ASCII characters, from code 32 to code 126 (code 96 by name)
AsciiPrintable ==
  <<" ","!","\"","#","$","%","&","'","(",")","*","+",",","-",".","/",
    "0","1","2","3","4","5","6","7","8","9",":",";","<","=",">","?",
    "@","A","B","C","D","E","F","G","H","I","J","K","L","M","N","O",
    "P","Q","R","S","T","U","V","W","X","Y","Z","[","\\","]","^","_",
    "grave","a","b","c","d","e","f","g","h","i","j","k","l","m","n","o",
    "p","q","r","s","t","u","v","w","x","y","z","{","|","}","~">>

\* a decoded character outside printable ASCII; no character class of the
\* extractors holds it
OtherChar == "other"

RECURSIVE B64Loop(_, _, _, _, _, _)
\* the loop of binascii.a2b_base64 without strict mode over s from index i:
\* characters outside the alphabet are skipped, a pad that completes a quad
\* ends the input, and data left in an incomplete quad is an error (the second
\* disjunct of the first test never holds: it has the accumulators evaluated
\* at every turn)
B64Loop(s, i, quad_pos, leftchar, pads, bin_data) ==
  IF i > Len(s) \/ Len(bin_data) + leftchar + pads < 0
  THEN [ok |-> quad_pos = 0, bytes |-> bin_data]
  ELSE IF s[i] = "="
  THEN IF quad_pos >= 2 /\ quad_pos + pads + 1 >= 4
       THEN [ok |-> TRUE, bytes |-> bin_data]
       ELSE B64Loop(s, i + 1, quad_pos, leftchar,
                    IF quad_pos >= 2 THEN pads + 1 ELSE pads, bin_data)
  ELSE IF s[i] \notin Range(B64Alphabet)
  THEN B64Loop(s, i + 1, quad_pos, leftchar, pads, bin_data)
  ELSE LET this_ch == IndexOf(B64Alphabet, s[i])
       IN  CASE quad_pos = 0 -> B64Loop(s, i + 1, 1, this_ch, 0, bin_data)
             [] quad_pos = 1 ->
                  B64Loop(s, i + 1, 2, this_ch % 16, 0,
                          Append(bin_data, leftchar * 4 + this_ch \div 16))
             [] quad_pos = 2 ->
                  B64Loop(s, i + 1, 3, this_ch % 4, 0,
                          Append(bin_data, leftchar * 16 + this_ch \div 4))
             [] quad_pos = 3 ->
                  B64Loop(s, i + 1, 0, 0, 0,
                          Append(bin_data, leftchar * 64 + this_ch))

\* base64.b64decode(value): the bytes, or a binascii.Error
b64decode(value) == B64Loop(value, 1, 0, 0, 0, <<>>)

\* number of continuation bytes the UTF-8 lead byte b announces, -1 when b
\* cannot start a character
Utf8Tail(b) ==
  IF b < 128 THEN 0
  ELSE IF b >= 194 /\ b <= 223 THEN 1
  ELSE IF b >= 224 /\ b <= 239 THEN 2
  ELSE IF b >= 240 /\ b <= 244 THEN 3
  ELSE 0 - 1

\* the range the first continuation byte after lead byte b has to be in
Utf8Second(b) ==
  IF b = 224 THEN 160..191
  ELSE IF b = 237 THEN 128..159
  ELSE IF b = 240 THEN 144..191
  ELSE IF b = 244 THEN 128..143
  ELSE 128..191

RECURSIVE Utf8Loop(_, _, _)
\* bytes.decode('utf-8') from index i: the text, or a UnicodeDecodeError (the
\* second disjunct of the first test never holds)
Utf8Loop(bs, i, text) ==
  IF i > Len(bs) \/ Len(text) < 0 THEN [ok |-> TRUE, text |-> text]
  ELSE LET b == bs[i]
           n == Utf8Tail(b)
       IN  IF n < 0 \/ i + n > Len(bs) THEN [ok |-> FALSE, text |-> <<>>]
           ELSE IF n = 0
           THEN Utf8Loop(bs, i + 1,
                  Append(text, IF b >= 32 /\ b <= 126 THEN AsciiPrintable[b - 31]
                               ELSE OtherChar))
           ELSE IF /\ bs[i + 1] \in Utf8Second(b)
                   /\ \A k \in 2..n : bs[i + k] \in 128..191
           THEN Utf8Loop(bs, i + n + 1, Append(text, OtherChar))
           ELSE [ok |-> FALSE, text |-> <<>>]

\* base64.b64decode(value).decode('utf-8') under try / except: pass
DecodeSecret(value) ==
  LET raw == b64decode(value)
  IN  IF ~raw.ok THEN [ok |-> FALSE, text |-> <<>>]
      ELSE Utf8Loop(raw.bytes, 1, <<>>)

RECURSIVE ConfigmapValues(_, _, _)
\* for key, value in data.items(): all_urls.extend(extract_urls_from_config(value))
ConfigmapValues(all, data, i) ==
  IF i > Len(data) THEN all
  ELSE ConfigmapValues(all \o extract_urls_from_config(data[i]), data, i + 1)

RECURSIVE SecretValues(_, _, _)
\* for key, value in data.items(): decode, extend; except: pass
SecretValues(all, data, i) ==
  IF i > Len(data) THEN all
  ELSE LET decoded == DecodeSecret(data[i])
       IN  SecretValues(IF decoded.ok
                        THEN all \o extract_urls_from_config(decoded.text)
                        ELSE all,
                        data, i + 1)

RECURSIVE ConfigmapItems(_, _, _)
ConfigmapItems(all, items, i) ==
  IF i > Len(items) THEN all
  ELSE ConfigmapItems(ConfigmapValues(all, items[i].data, 1), items, i + 1)

RECURSIVE SecretItems(_, _, _)
SecretItems(all, items, i) ==
  IF i > Len(items) THEN all
  ELSE SecretItems(SecretValues(all, items[i].data, 1), items, i + 1)

\* get_configmaps_and_secrets(): all_urls, ConfigMaps first, then Secrets
get_configmaps_and_secrets(configmaps, secrets) ==
  SecretItems(ConfigmapItems(<<>>, configmaps, 1), secrets, 1)

RECURSIVE DrawioConfigItems(_, _, _)
\* for config_item in configmaps + secrets
DrawioConfigItems(conns, items, i) ==
  IF i > Len(items) THEN conns
  ELSE DrawioConfigItems(DrawioConfigData(conns, 1, items[i]), items, i + 1)

(***************************************************************************)
(* Bounds and input pools                                                  *)
(***************************************************************************)
\* items of `kubectl get pods`, `get services`, `get configmaps` read in one run
MaxPods == 2
MaxServices == 2
MaxConfigs == 1
\* digits of a port token in the texts given to the extractor alone
MaxPortDigits == 3
\* conditions and container statuses of a pod given to the classifier alone
MaxConditions == 1
MaxStatuses == 2

Http == HttpLit
Https == HttpsLit
NsProd == <<"p","r","o","d">>
Bill == <<"b","i","l","l">>
AuthGw == <<"a","u","t","h","-","g","w">>
HttpsGw == <<"h","t","t","p","s","-","g","w">>
Ghost == <<"g","h","o","s","t">>
GhostNs == <<"g","h","o","s","t","-","n","s">>

\* scheme://<service>.<namespace>.svc.cluster.local[:<port>]; port <<>> is no port
Url(scheme, service, namespace, port) ==
  scheme \o SchemeSep \o service \o Dot \o namespace \o SvcSuffix
    \o (IF port = <<>> THEN <<>> ELSE <<":">> \o port)

ServiceNames == {Bill, AuthGw, HttpsGw}

\* the port a workload of the pool uses to address a service
PortFor(service) == IF service = Bill THEN <<"8","0">> ELSE <<"8","4","4","3">>

ServicePool ==
  {[name |-> Some(s), namespace |-> Some(NsProd)] : s \in ServiceNames}

\* container statuses: the graphviz script reads waiting/terminated of the
\* status itself, the draw.io script reads them under state
Detail(reason, message) == [reason |-> Some(reason), message |-> Some(message)]
StatusOf(ready, waiting, terminated) ==
  [ready |-> ready, waiting |-> waiting, terminated |-> terminated,
   state |-> Some([waiting |-> waiting, terminated |-> terminated])]
CsReady == StatusOf(TRUE, Absent, Absent)
CsWaiting == StatusOf(FALSE, Some(Detail("CrashLoopBackOff", "back-off")), Absent)
CsTerminated == StatusOf(FALSE, Absent, Some(Detail("Error", "exit 1")))
CsWaitingAndTerminated ==
  StatusOf(FALSE, Some(Detail("ImagePullBackOff", "pull")),
           Some(Detail("OOMKilled", "oom")))
CsNoDetail == StatusOf(FALSE, Absent, Absent)
\* a waiting record without reason and message keys
CsWaitingBare ==
  StatusOf(FALSE, Some([reason |-> Absent, message |-> Absent]), Absent)

Port(n) == [containerPort |-> Some(n)]
Env(v) == [value |-> Some(v)]
EnvNoValue == [value |-> Absent]
Container(ports, env) ==
  [ports |-> ports, env |-> env, command |-> Absent, args |-> Absent]

Health(phase, conditions, statuses) ==
  [phase |-> phase, conditions |-> conditions, containerStatuses |-> statuses]
Healthy == Health(Some("Running"), <<>>, <<CsReady>>)
Crashing == Health(Some("Pending"), <<>>, <<CsWaiting>>)
NotReadyNoDetail == Health(Some("Running"), <<>>, <<CsNoDetail>>)

\* the workloads of the pool, without their names
PodShapes ==
  {[health |-> Healthy,
    containers |-> <<Container(<<Port(9000)>>,
                               <<Env(Url(Http, s, NsProd, PortFor(s)))>>)>>]
     : s \in ServiceNames}
  \cup
  {[health |-> Healthy,
    containers |-> <<Container(<<Port(9000)>>,
                               <<Env(Url(Http, Bill, NsProd, PortFor(Bill))),
                                 Env(Url(Http, Bill, NsProd, PortFor(Bill)))>>),
                     Container(<<Port(9000)>>,
                               <<Env(Url(Http, Bill, NsProd, PortFor(Bill)))>>)>>],
   [health |-> Crashing,
    containers |-> <<Container(<<Port(9000)>>,
                               <<Env(Url(Http, Bill, NsProd, PortFor(Bill)))>>)>>],
   [health |-> NotReadyNoDetail,
    containers |-> <<Container(<<Port(9000)>>,
                               <<Env(Url(Http, Bill, NsProd, PortFor(Bill)))>>)>>],
   [health |-> Healthy,
    containers |-> <<Container(<<>>,
                               <<Env(Url(Http, Ghost, GhostNs, <<>>)),
                                 Env(Url(Https, AuthGw, NsProd, <<>>))>>)>>],
   [health |-> Healthy,
    containers |-> <<Container(<<Port(9000)>>,
                               <<EnvNoValue, Env(<<>>), Env(<<"n","o"," ","u","r","l"," ","h","e","r","e">>)>>)>>]}

\* the k-th item of `kubectl get pods`: names are unique in a namespace
PodItem(shape, k) ==
  [name |-> Some(<<"w">> \o IntToStr(k)),
   namespace |-> IF "namespace" \in DOMAIN shape THEN shape.namespace
                 ELSE Some(NsProd),
   phase |-> shape.health.phase, conditions |-> shape.health.conditions,
   containerStatuses |-> shape.health.containerStatuses,
   containers |-> shape.containers]

ConfigShapes ==
  {<<Url(Http, Bill, NsProd, PortFor(Bill))>>,
   <<<<"p","l","a","i","n">>, Url(Https, Ghost, GhostNs, <<"4","4","3">>)>>}

\* the k-th configmap
ConfigItem(data, k) ==
  [name |-> Some(<<"c","m">> \o IntToStr(k)), namespace |-> Some(NsProd),
   data |-> data]

(***************************************************************************)
(* State                                                                   *)
(***************************************************************************)
VARIABLES
  script,           \* which script runs: "graphviz" or "drawio"
  pc,               \* where main is
  pods_data,        \* items of `kubectl get pods` read so far
  services_data,    \* items of `kubectl get services` read so far
  configs_data,     \* configmap items read so far (draw.io script)
  pods,             \* graphviz: healthy pods kept by get_pod_info
  unhealthy_pods,   \* both scripts
  services,         \* graphviz: the dict of get_services, as its item list
  interactions,     \* graphviz
  keycloak_related, \* graphviz
  dot,              \* graphviz: the digraph of generate_topology_graph
  service_list,     \* draw.io
  service_map,      \* draw.io: keys of the lookup dict
  connections,      \* draw.io
  diagram,          \* draw.io: cells of create_drawio_diagram
  probe,            \* an env entry and an edge list given to the scan of one value
  found,            \* what the scan of probe returned
  item,             \* a pod item given to the health classifier alone
  verdict,          \* what the classifier returned for item
  stores,           \* the ConfigMap and Secret items of a snapshot
  all_urls,         \* graphviz: what get_configmaps_and_secrets returned
  container,        \* a container given to the scan of one container
  user_response,    \* search script: outcome of the authentication probe
  page,             \* search script: number of the next project page
  projects,         \* search script: projects collected so far
  responses,        \* search script: the page requests made and their outcomes
  returned,         \* search script: what get_all_projects returned
  kubectl           \* per resource kind, how its kubectl command ended

vars == <<script, pc, pods_data, services_data, configs_data, pods,
          unhealthy_pods, services, interactions, keycloak_related, dot,
          service_list, service_map, connections, diagram,
          probe, found, item, verdict, stores, all_urls, container,
          user_response, page, projects, responses, returned, kubectl>>

pipelineVars == <<pods_data, services_data, configs_data, pods,
                  unhealthy_pods, services, interactions, keycloak_related, dot,
                  service_list, service_map, connections, diagram>>
gitlabVars == <<user_response, page, projects, responses, returned>>
unitVars == <<stores, all_urls, container, gitlabVars, kubectl>>
probeVars == <<probe, found, item, verdict, unitVars>>

NoGraph == [service_nodes |-> <<>>, unhealthy_nodes |-> <<>>, edges |-> <<>>]
NoDiagram == [service_cells |-> <<>>, pod_cells |-> <<>>, edge_cells |-> {}]
NoItem == [name |-> Absent, namespace |-> Absent, phase |-> Absent,
           conditions |-> <<>>, containerStatuses |-> <<>>, containers |-> <<>>]

PipelineInit ==
  /\ pods_data = <<>> /\ services_data = <<>> /\ configs_data = <<>>
  /\ pods = <<>> /\ unhealthy_pods = <<>> /\ services = <<>>
  /\ interactions = <<>> /\ keycloak_related = <<>> /\ dot = NoGraph
  /\ service_list = <<>> /\ service_map = <<>> /\ connections = <<>>
  /\ diagram = NoDiagram

NoProbe == [value |-> Absent, edges |-> <<>>]

NoStores == [configmaps |-> <<>>, secrets |-> <<>>]
NoContainer == Container(<<>>, <<>>)

GitlabInit ==
  /\ user_response = [outcome |-> "none", status |-> 0] /\ page = 1 /\ projects = <<>>
  /\ responses = <<>> /\ returned = Absent

\* no kubectl command has run
NoFetch == [kind \in {"pods", "services", "configmaps", "secrets"} |-> "pending"]

UnitInit ==
  /\ stores = NoStores /\ all_urls = <<>> /\ container = NoContainer
  /\ GitlabInit
  /\ kubectl = NoFetch

ProbeInit ==
  /\ probe = NoProbe /\ found = <<>> /\ item = NoItem /\ verdict = <<>>
  /\ UnitInit

Init ==
  /\ script \in {"graphviz", "drawio"}
  /\ pc = IF script = "graphviz" THEN "get_pod_info" ELSE "services"
  /\ PipelineInit
  /\ ProbeInit

(***************************************************************************)
(* main of the graphviz script                                             *)
(***************************************************************************)
\* one iteration of `for item in pods_data.get('items', [])`
GetPodInfo(shape) ==
  /\ script = "graphviz" /\ pc = "get_pod_info"
  /\ Len(pods_data) < MaxPods
  /\ LET it == PodItem(shape, Len(pods_data) + 1)
         r  == get_pod_info_item(it)
     IN  /\ pods_data' = Append(pods_data, it)
         /\ IF r.healthy
            THEN pods' = Append(pods, r.pod) /\ UNCHANGED unhealthy_pods
            ELSE unhealthy_pods' = Append(unhealthy_pods, r.pod) /\ UNCHANGED pods
  /\ UNCHANGED <<script, pc, services_data, configs_data, services, interactions,
                 keycloak_related, dot, service_list, service_map, connections,
                 diagram, probeVars>>

\* one iteration of `for item in services_data.get('items', [])`
GetServices(svc) ==
  /\ script = "graphviz" /\ pc \in {"get_pod_info", "get_services"}
  /\ Len(services_data) < MaxServices
  /\ svc \notin Range(services_data)
  /\ services_data' = Append(services_data, svc)
  /\ services' = DictPut(services, get_services_item(svc))
  /\ pc' = "get_services"
  /\ UNCHANGED <<script, pods_data, configs_data, pods, unhealthy_pods,
                 interactions, keycloak_related, dot, service_list, service_map,
                 connections, diagram, probeVars>>

\* interactions, keycloak_related = analyze_pod_interactions(pods, services)
Analyze ==
  /\ script = "graphviz" /\ pc \in {"get_pod_info", "get_services"}
  /\ LET r == analyze_pod_interactions(pods, services)
     IN  /\ interactions' = r.interactions
         /\ keycloak_related' = r.keycloak_related
  /\ pc' = "analyzed"
  /\ UNCHANGED <<script, pods_data, services_data, configs_data, pods,
                 unhealthy_pods, services, dot, service_list, service_map,
                 connections, diagram, probeVars>>

\* dot = generate_topology_graph(...)
Generate ==
  /\ script = "graphviz" /\ pc = "analyzed"
  /\ dot' = generate_topology_graph(interactions, services, unhealthy_pods,
                                    keycloak_related)
  /\ pc' = "done"
  /\ UNCHANGED <<script, pods_data, services_data, configs_data, pods,
                 unhealthy_pods, services, interactions, keycloak_related,
                 service_list, service_map, connections, diagram, probeVars>>

(***************************************************************************)
(* main of the draw.io script                                              *)
(***************************************************************************)
\* one iteration of `for service in services`
DrawioService(svc) ==
  /\ script = "drawio" /\ pc = "services"
  /\ Len(services_data) < MaxServices
  /\ svc \notin Range(services_data)
  /\ services_data' = Append(services_data, svc)
  /\ IF Has(svc.name) /\ Has(svc.namespace)
     THEN /\ service_list' = Append(service_list,
                               [name |-> svc.name[1], namespace |-> svc.namespace[1]])
          /\ service_map' =
               LET k == KeyOf(svc.name[1], svc.namespace[1])
               IN  IF k \in Range(service_map) THEN service_map
                   ELSE Append(service_map, k)
          /\ UNCHANGED pc
     ELSE \* service['metadata']['namespace'] raises KeyError
          /\ pc' = "crashed"
          /\ UNCHANGED <<service_list, service_map>>
  /\ UNCHANGED <<script, pods_data, configs_data, pods, unhealthy_pods, services,
                 interactions, keycloak_related, dot, connections, diagram,
                 probeVars>>

\* one iteration of `for pod in pods`
DrawioPod(shape) ==
  /\ script = "drawio" /\ pc \in {"services", "pods"}
  /\ Len(pods_data) < MaxPods
  /\ LET it == PodItem(shape, Len(pods_data) + 1)
     IN  /\ pods_data' = Append(pods_data, it)
         /\ IF Has(it.name) /\ Has(it.namespace)
            THEN LET st == get_pod_status(it)
                 IN  /\ unhealthy_pods' =
                          IF DrawioUnhealthy(st[1])
                          THEN Append(unhealthy_pods,
                                 [name |-> it.name[1], namespace |-> it.namespace[1],
                                  status |-> st[1], reason |-> st[2]])
                          ELSE unhealthy_pods
                     /\ connections' =
                          DrawioScanContainers(connections, it.containers, 1,
                                               it.name[1], it.namespace[1])
                     /\ pc' = "pods"
            ELSE \* pod['metadata']['name'] raises KeyError
                 /\ pc' = "crashed"
                 /\ UNCHANGED <<unhealthy_pods, connections>>
  /\ UNCHANGED <<script, services_data, configs_data, pods, services,
                 interactions, keycloak_related, dot, service_list, service_map,
                 diagram, probeVars>>

\* one iteration of `for config_item in configmaps + secrets`
DrawioConfig(data) ==
  /\ script = "drawio" /\ pc \in {"services", "pods", "configs"}
  /\ Len(pods_data) + Len(services_data) > 0
  /\ Len(configs_data) < MaxConfigs
  /\ LET it == ConfigItem(data, Len(configs_data) + 1)
     IN  /\ configs_data' = Append(configs_data, it)
         /\ connections' = DrawioConfigData(connections, 1, it)
  /\ pc' = "configs"
  /\ UNCHANGED <<script, pods_data, services_data, pods, unhealthy_pods, services,
                 interactions, keycloak_related, dot, service_list, service_map,
                 diagram, probeVars>>

\* diagram_xml = create_drawio_diagram(...); main returns before it when there
\* are neither pods nor services
DrawioDiagram ==
  /\ script = "drawio" /\ pc \in {"services", "pods", "configs"}
  /\ Len(pods_data) + Len(services_data) > 0
  /\ diagram' = create_drawio_diagram(connections, service_list, unhealthy_pods)
  /\ pc' = "done"
  /\ UNCHANGED <<script, pods_data, services_data, configs_data, pods,
                 unhealthy_pods, services, interactions, keycloak_related, dot,
                 service_list, service_map, connections, probeVars>>

Next ==
  \/ \E shape \in PodShapes : GetPodInfo(shape)
  \/ \E svc \in ServicePool : GetServices(svc)
  \/ Analyze
  \/ Generate
  \/ \E svc \in ServicePool : DrawioService(svc)
  \/ \E shape \in PodShapes : DrawioPod(shape)
  \/ \E data \in ConfigShapes : DrawioConfig(data)
  \/ DrawioDiagram

Spec == Init /\ [][Next]_vars

(***************************************************************************)
(* The same runs over a snapshot with incomplete records                   *)
(***************************************************************************)
NsDefault == <<"d","e","f","a","u","l","t">>

\* service records, one of them without a namespace key
IngestServicePool ==
  {[name |-> Some(Bill), namespace |-> Some(NsProd)],
   [name |-> Some(AuthGw), namespace |-> Absent],
   [name |-> Some(HttpsGw), namespace |-> Some(NsProd)]}

\* workloads, one without a namespace key and one without a phase key
IngestPodShapes ==
  {[health |-> Healthy,
    containers |-> <<Container(<<Port(9000)>>,
                               <<Env(Url(Http, Bill, NsProd, PortFor(Bill)))>>)>>],
   [health |-> Healthy, namespace |-> Absent,
    containers |-> <<Container(<<Port(9000)>>,
                               <<Env(Url(Http, AuthGw, NsDefault, <<>>))>>)>>],
   [health |-> Health(Absent, <<>>, <<CsReady>>),
    containers |-> <<Container(<<Port(9000)>>,
                               <<Env(Url(Http, Bill, NsProd, PortFor(Bill)))>>)>>],
   [health |-> Crashing,
    containers |-> <<Container(<<>>, <<>>)>>]}

NextIngest ==
  \/ \E shape \in IngestPodShapes : GetPodInfo(shape)
  \/ \E svc \in IngestServicePool : GetServices(svc)
  \/ Analyze
  \/ Generate
  \/ \E svc \in IngestServicePool : DrawioService(svc)
  \/ \E shape \in IngestPodShapes : DrawioPod(shape)
  \/ \E data \in ConfigShapes : DrawioConfig(data)
  \/ DrawioDiagram

SpecIngest == Init /\ [][NextIngest]_vars

(***************************************************************************)
(* The URL Extractor alone: the scan of one environment value              *)
(***************************************************************************)
\* all sequences over S of length at most n
SeqsUpTo(S, n) == UNION {[1..k -> S] : k \in 0..n}

HttpUpper == <<"H","T","T","P">>
HttpsMixed == <<"H","t","t","p","s">>
ProbeSchemes == {Http, Https, HttpUpper, HttpsMixed}
\* single-label names, and one name of two labels
TwoLabels == <<"a",".","b">>
ProbeServices == ServiceNames \cup {Ghost, TwoLabels}
NsHttps == <<"x","-","h","t","t","p","s">>
\* a namespace named like a label of the cluster suffix
NsSvc == <<"s","v","c">>
ProbeNamespaces == {NsProd, NsHttps, NsSvc}
\* port tokens: no port, or up to MaxPortDigits digits
ProbePorts == SeqsUpTo({"0", "8"}, MaxPortDigits)

\* the URL inside a larger value
Wrap(u) == <<"x","=">> \o u \o <<"/","y"," ","z">>

\* values without a reference of the addressing convention
NoMatchTexts ==
  {<<>>, <<"n","o"," ","u","r","l"," ","h","e","r","e">>, <<"h","t","t","p",":","/","/">>, <<"h","t","t","p",":","/","/","b","i","l","l",".","p","r","o","d",".","s","v","c",".","c","l","u","s","t","e","r">>,
   <<"f","t","p",":","/","/","b","i","l","l",".","p","r","o","d",".","s","v","c",".","c","l","u","s","t","e","r",".","l","o","c","a","l">>, <<"h","t","t","p",":","/","/",".","s","v","c",".","c","l","u","s","t","e","r",".","l","o","c","a","l",":","8","0">>,
   <<"b","i","l","l",".","p","r","o","d",".","s","v","c",".","c","l","u","s","t","e","r",".","l","o","c","a","l",":","8","0">>, <<"h","t","t","p","s",":","/","b","i","l","l",".","p","r","o","d",".","s","v","c",".","c","l","u","s","t","e","r",".","l","o","c","a","l">>}

ProbeTexts ==
  {Url(sch, s, n, p) : sch \in ProbeSchemes, s \in ProbeServices,
                       n \in ProbeNamespaces, p \in ProbePorts}
  \cup {Wrap(Url(sch, s, NsProd, p)) : sch \in {Http, Https},
                                       s \in ProbeServices, p \in ProbePorts}
  \cup NoMatchTexts

ProbeValues == {Absent} \cup {Some(x) : x \in ProbeTexts}

\* the pod and container whose value is scanned, and the services it may address
ProbePod == [name |-> <<"w","1">>, namespace |-> NsProd]
ProbeContainer == Container(<<Port(9000)>>, <<>>)
\* edge lists the scan may start from
ProbeInteractions ==
  {<<>>,
   <<[source |-> KeyOf(<<"w","0">>, NsProd), source_port |-> 9000,
      destination |-> KeyOf(Bill, NsProd), destination_port |-> 80,
      protocol |-> "HTTP"]>>}
ProbeConnections ==
  {<<>>,
   <<[source_service |-> <<"w","0">>, source_namespace |-> NsProd,
      target_service |-> Bill, target_namespace |-> NsProd,
      source_port |-> <<"9","0","0","0">>, target_port |-> <<"8","0">>, protocol |-> "HTTP"]>>}

InitExtract ==
  /\ script \in {"graphviz", "drawio"}
  /\ pc = "extract"
  /\ PipelineInit
  /\ probe \in [value : ProbeValues,
                edges : IF script = "graphviz" THEN ProbeInteractions
                        ELSE ProbeConnections]
  /\ found = <<>> /\ item = NoItem /\ verdict = <<>>
  /\ UnitInit

\* services dict holding every service of the pool
AllServices ==
  LET one(s) == get_services_item([name |-> Some(s), namespace |-> Some(NsProd)])
  IN  <<one(Bill), one(AuthGw), one(HttpsGw)>>

\* graphviz script: the body of `for env in env_vars` for the probed entry
ScanValue ==
  /\ script = "graphviz" /\ pc = "extract"
  /\ LET urls == extract_urls_from_config(Get(probe.value, <<>>))
         c == [ProbeContainer EXCEPT !.env = <<[value |-> probe.value]>>]
         r == ScanEnv([interactions |-> probe.edges, keycloak_related |-> <<>>],
                      1, ProbePod, c, AllServices)
     IN  found' = [urls |-> urls,
                   refs |-> [i \in 1..Len(urls) |-> extract_service_from_url(urls[i])],
                   protocols |-> [i \in 1..Len(urls) |-> ProtocolOf(urls[i])],
                   edges |-> r.interactions]
  /\ pc' = "extracted"
  /\ UNCHANGED <<script, pipelineVars, probe, item, verdict, unitVars>>

\* draw.io script: the body of `for env in env_vars` for the probed entry
DrawioScanValue ==
  /\ script = "drawio" /\ pc = "extract"
  /\ LET urls == IF Has(probe.value)
                 THEN drawio_extract_urls_from_config(probe.value[1]) ELSE <<>>
         c == [ProbeContainer EXCEPT !.env = <<[value |-> probe.value]>>]
     IN  found' = [urls |-> urls,
                   refs |-> [i \in 1..Len(urls) |-> drawio_match_url(urls[i])],
                   protocols |-> [i \in 1..Len(urls) |-> ProtocolOf(urls[i])],
                   edges |-> DrawioScanEnv(probe.edges, 1, ProbePod.name,
                                           ProbePod.namespace, c)]
  /\ pc' = "extracted"
  /\ UNCHANGED <<script, pipelineVars, probe, item, verdict, unitVars>>

NextExtract == ScanValue \/ DrawioScanValue

SpecExtract == InitExtract /\ [][NextExtract]_vars

(***************************************************************************)
(* The configuration stores alone: ConfigMap and Secret items              *)
(***************************************************************************)
\* Secret items and values per Secret read in one run
MaxSecrets == 2
MaxSecretValues == 2

AuthUrl == Url(Https, AuthGw, NsProd, <<>>)
\* base64 of http://bill.prod.svc.cluster.local:80
B64BillUrl == <<"a","H","R","0","c","D","o","v","L","2","J","p","b","G","w","u","c","H","J","v","Z","C","5","z","d","m","M","u","Y","2","x","1","c","3","R","l","c","i","5","s","b","2","N","h","b","D","o","4","M","A","=","=">>
\* base64 of https://auth-gw.prod.svc.cluster.local
B64AuthUrl == <<"a","H","R","0","c","H","M","6","L","y","9","h","d","X","R","o","L","W","d","3","L","n","B","y","b","2","Q","u","c","3","Z","j","L","m","N","s","d","X","N","0","Z","X","I","u","b","G","9","j","Y","W","w","=">>
\* data left in an incomplete quad: binascii.Error
B64BadPadding == <<"a","b","c">>
\* base64 of the byte 0xFF: UnicodeDecodeError
B64NotUtf8 == <<"/","w","=","=">>

\* values of the data of a Secret, as `kubectl get secrets -o json` gives them
SecretValuePool == {B64BillUrl, B64AuthUrl, B64BadPadding, B64NotUtf8}

\* the k-th secret
SecretItem(data, k) ==
  [name |-> Some(<<"s">> \o IntToStr(k)), namespace |-> Some(NsProd),
   data |-> data]

StoresPool ==
  {[configmaps |-> cms,
    secrets |-> [k \in 1..Len(ds) |-> SecretItem(ds[k], k)]] :
     cms \in {<<>>} \cup {<<ConfigItem(d, 1)>> : d \in ConfigShapes},
     ds \in SeqsUpTo(SeqsUpTo(SecretValuePool, MaxSecretValues), MaxSecrets)}

InitConfig ==
  /\ script \in {"graphviz", "drawio"}
  /\ pc = "config"
  /\ PipelineInit
  /\ probe = NoProbe /\ found = <<>> /\ item = NoItem /\ verdict = <<>>
  /\ all_urls = <<>> /\ container = NoContainer
  /\ GitlabInit /\ kubectl = NoFetch
  /\ stores \in StoresPool

\* graphviz script: get_configmaps_and_secrets on the stores
GetConfigmapsAndSecrets ==
  /\ script = "graphviz" /\ pc = "config"
  /\ all_urls' = get_configmaps_and_secrets(stores.configmaps, stores.secrets)
  /\ pc' = "config_done"
  /\ UNCHANGED <<script, pipelineVars, probe, found, item, verdict, stores,
                 container, gitlabVars, kubectl>>

\* draw.io script: the loop `for config_item in configmaps + secrets` of main
DrawioConfigStores ==
  /\ script = "drawio" /\ pc = "config"
  /\ connections' = DrawioConfigItems(connections,
                                      stores.configmaps \o stores.secrets, 1)
  /\ pc' = "config_done"
  /\ UNCHANGED <<script, pods_data, services_data, configs_data, pods,
                 unhealthy_pods, services, interactions, keycloak_related, dot,
                 service_list, service_map, diagram, probeVars>>

NextConfig == GetConfigmapsAndSecrets \/ DrawioConfigStores

SpecConfig == InitConfig /\ [][NextConfig]_vars

(***************************************************************************)
(* Dependency inference alone: the scan of one container                   *)
(***************************************************************************)
\* declared ports of the containers of the pool
PortShapes == {<<>>, <<Port(9000)>>, <<Port(9000), Port(9001)>>}
\* where a container of the pool holds its text
ContainerSources == {"env", "command", "args"}
NoUrlText == <<"n","o"," ","u","r","l"," ","h","e","r","e">>
ContainerTexts ==
  {Url(Http, Bill, NsProd, PortFor(Bill)), Wrap(Url(Https, AuthGw, NsProd, <<>>)),
   Url(Http, Ghost, GhostNs, <<>>), NoUrlText}

\* a container with the text in an environment value, in a command token or
\* in an argument token
ContainerWith(ports, source, text) ==
  [ports |-> ports,
   env |-> IF source = "env" THEN <<Env(text)>> ELSE <<>>,
   command |-> IF source = "command" THEN Some(<<<<"r","u","n">>, text>>) ELSE Absent,
   args |-> IF source = "args" THEN Some(<<text>>) ELSE Absent]

InitContainer ==
  /\ script \in {"graphviz", "drawio"}
  /\ pc = "container"
  /\ PipelineInit
  /\ probe = NoProbe /\ found = <<>> /\ item = NoItem /\ verdict = <<>>
  /\ stores = NoStores /\ all_urls = <<>>
  /\ GitlabInit /\ kubectl = NoFetch
  /\ container \in {ContainerWith(ports, source, text) :
                      ports \in PortShapes, source \in ContainerSources,
                      text \in ContainerTexts}

\* graphviz script: the body of `for container in pod['containers']`
ScanContainer ==
  /\ script = "graphviz" /\ pc = "container"
  /\ LET pod == [name |-> ProbePod.name, namespace |-> ProbePod.namespace,
                 containers |-> <<container>>]
         r == ScanContainers([interactions |-> interactions,
                              keycloak_related |-> keycloak_related],
                             1, pod, AllServices)
     IN  /\ interactions' = r.interactions
         /\ keycloak_related' = r.keycloak_related
  /\ pc' = "scanned"
  /\ UNCHANGED <<script, pods_data, services_data, configs_data, pods,
                 unhealthy_pods, services, dot, service_list, service_map,
                 connections, diagram, probeVars>>

\* draw.io script: the body of `for container in containers`
DrawioScanOneContainer ==
  /\ script = "drawio" /\ pc = "container"
  /\ connections' = DrawioScanContainer(connections, ProbePod.name,
                                        ProbePod.namespace, container)
  /\ pc' = "scanned"
  /\ UNCHANGED <<script, pods_data, services_data, configs_data, pods,
                 unhealthy_pods, services, interactions, keycloak_related, dot,
                 service_list, service_map, diagram, probeVars>>

NextContainer == ScanContainer \/ DrawioScanOneContainer

SpecContainer == InitContainer /\ [][NextContainer]_vars

(***************************************************************************)
(* create_drawio_diagram alone: node lists and one connection              *)
(***************************************************************************)
MaxDiagramServices == 3
MaxDiagramPods == 2
Worker == <<"w","9">>
Job == <<"j","o","b">>
\* services of the node lists; a key may be repeated
DiagramServices ==
  {[name |-> Bill, namespace |-> NsProd], [name |-> AuthGw, namespace |-> NsProd]}
\* unhealthy pods of the node lists; one is named like a service
DiagramPods ==
  {[name |-> n, namespace |-> NsProd, status |-> "Pending", reason |-> "OK"] :
     n \in {Bill, Worker, Job}}
DiagramConnections ==
  {[source_service |-> sn, source_namespace |-> NsProd,
    target_service |-> tn, target_namespace |-> NsProd,
    source_port |-> NotApplicable, target_port |-> <<"8","0">>, protocol |-> "HTTP"] :
     sn \in {Bill, Worker, Job}, tn \in {Bill, AuthGw}}

InitDiagram ==
  /\ script = "drawio"
  /\ pc = "diagram"
  /\ pods_data = <<>> /\ services_data = <<>> /\ configs_data = <<>>
  /\ pods = <<>> /\ services = <<>>
  /\ interactions = <<>> /\ keycloak_related = <<>> /\ dot = NoGraph
  /\ service_map = <<>> /\ diagram = NoDiagram
  /\ service_list \in SeqsUpTo(DiagramServices, MaxDiagramServices)
  /\ unhealthy_pods \in SeqsUpTo(DiagramPods, MaxDiagramPods)
  /\ connections \in SeqsUpTo(DiagramConnections, 1)
  /\ ProbeInit

\* diagram_xml = create_drawio_diagram(connections, service_list, unhealthy_pods)
CreateDrawioDiagram ==
  /\ script = "drawio" /\ pc = "diagram"
  /\ diagram' = create_drawio_diagram(connections, service_list, unhealthy_pods)
  /\ pc' = "drawn"
  /\ UNCHANGED <<script, pods_data, services_data, configs_data, pods,
                 unhealthy_pods, services, interactions, keycloak_related, dot,
                 service_list, service_map, connections, probeVars>>

NextDiagram == CreateDrawioDiagram

SpecDiagram == InitDiagram /\ [][NextDiagram]_vars

(***************************************************************************)
(* get_all_projects of the search script                                   *)
(***************************************************************************)
\* pages a run may receive before the server has to stop it
MaxPages == 3
\* the projects returned when the authentication probe fails
MockProjects ==
  <<[id |-> 1, name |-> "web-app-project"], [id |-> 2, name |-> "api-service"],
    [id |-> 3, name |-> "auth-service"]>>
\* status codes other than 200: the two the loop names and one it does not
FailureStatuses == {401, 403, 500}
Project(n) == [id |-> n, name |-> "project"]
\* non-empty pages the server may send
PagePool ==
  {<<Project(10)>>, <<Project(11), Project(12)>>, <<Project(10), Project(13)>>}

NoResponse == [outcome |-> "none", status |-> 0]
StatusResponse(code) == [outcome |-> "status", status |-> code]
\* requests.get or response.json() raised a RequestException
ErrorResponse == [outcome |-> "error", status |-> 0]
\* a request for one project page and what came back
PageResponse(n, response, body) ==
  [page |-> n, outcome |-> response.outcome, status |-> response.status,
   body |-> body]

\* projects.extend(page_projects), with the new page put in front
ExtendProjectsFront(acc, page_projects) == page_projects \o acc
\* projects.extend(page_projects)
ExtendProjects(acc, page_projects) == acc \o page_projects

InitProjects ==
  /\ script = "search"
  /\ pc = "auth"
  /\ PipelineInit
  /\ ProbeInit

\* the probe answers with a status other than 200: the mock projects
AuthRejected(code) ==
  /\ script = "search" /\ pc = "auth"
  /\ user_response' = StatusResponse(code)
  /\ returned' = Some(MockProjects)
  /\ pc' = "returned"
  /\ UNCHANGED <<script, pipelineVars, probe, found, item, verdict, stores,
                 all_urls, container, kubectl, page, projects, responses>>

\* the probe raises a RequestException: the mock projects
AuthRequestError ==
  /\ script = "search" /\ pc = "auth"
  /\ user_response' = ErrorResponse
  /\ returned' = Some(MockProjects)
  /\ pc' = "returned"
  /\ UNCHANGED <<script, pipelineVars, probe, found, item, verdict, stores,
                 all_urls, container, kubectl, page, projects, responses>>

\* the probe answers 200: projects = [], page = 1, enter the loop
AuthOk ==
  /\ script = "search" /\ pc = "auth"
  /\ user_response' = StatusResponse(200)
  /\ projects' = <<>> /\ page' = 1
  /\ pc' = "paging"
  /\ UNCHANGED <<script, pipelineVars, probe, found, item, verdict, stores,
                 all_urls, container, kubectl, responses, returned>>

\* one turn of `while True`: status 200 with a non-empty page
PageProjects(page_projects) ==
  /\ script = "search" /\ pc = "paging"
  /\ page <= MaxPages
  /\ responses' = Append(responses,
                         PageResponse(page, StatusResponse(200), page_projects))
  /\ projects' = ExtendProjects(projects, page_projects)
  /\ page' = page + 1
  /\ UNCHANGED <<script, pc, pipelineVars, probe, found, item, verdict, stores,
                 all_urls, container, kubectl, user_response, returned>>

\* one turn of `while True`: status 200 with an empty page, break
PageEmpty ==
  /\ script = "search" /\ pc = "paging"
  /\ responses' = Append(responses, PageResponse(page, StatusResponse(200), <<>>))
  /\ returned' = Some(projects)
  /\ pc' = "returned"
  /\ UNCHANGED <<script, pipelineVars, probe, found, item, verdict, stores,
                 all_urls, container, kubectl, user_response, page, projects>>

\* one turn of `while True`: a status other than 200, break
PageRejected(code) ==
  /\ script = "search" /\ pc = "paging"
  /\ responses' = Append(responses, PageResponse(page, StatusResponse(code), <<>>))
  /\ returned' = Some(projects)
  /\ pc' = "returned"
  /\ UNCHANGED <<script, pipelineVars, probe, found, item, verdict, stores,
                 all_urls, container, kubectl, user_response, page, projects>>

\* one turn of `while True`: the request raises a RequestException, break
PageRequestError ==
  /\ script = "search" /\ pc = "paging"
  /\ responses' = Append(responses, PageResponse(page, ErrorResponse, <<>>))
  /\ returned' = Some(projects)
  /\ pc' = "returned"
  /\ UNCHANGED <<script, pipelineVars, probe, found, item, verdict, stores,
                 all_urls, container, kubectl, user_response, page, projects>>

NextProjects ==
  \/ \E code \in FailureStatuses : AuthRejected(code)
  \/ AuthRequestError
  \/ AuthOk
  \/ \E page_projects \in PagePool : PageProjects(page_projects)
  \/ PageEmpty
  \/ \E code \in FailureStatuses : PageRejected(code)
  \/ PageRequestError

\* every request is answered or fails: the function keeps taking steps
SpecProjects == InitProjects /\ [][NextProjects]_vars /\ WF_vars(NextProjects)

(***************************************************************************)
(* The runs with their kubectl commands: run_kubectl_command               *)
(***************************************************************************)
\* how a kubectl command may end. The graphviz script sets no timeout on
\* subprocess.run, the draw.io script sets 30 seconds
KubectlOutcomes == {"ok", "nonzero", "unparseable"}
DrawioKubectlOutcomes == KubectlOutcomes \cup {"timeout"}

\* run_kubectl_command without `except json.JSONDecodeError`
run_kubectl_command_uncaught(outcome) ==
  [raised |-> outcome = "unparseable",
   data |-> IF outcome = "ok" THEN "parsed" ELSE "None"]
\* graphviz script: CalledProcessError and JSONDecodeError are caught
run_kubectl_command(outcome) ==
  [raised |-> FALSE,
   data |-> IF outcome = "ok" THEN "parsed" ELSE "None"]

\* draw.io script: a non-zero return code, TimeoutExpired and JSONDecodeError
\* give None
drawio_run_kubectl_command(outcome) ==
  [raised |-> FALSE,
   data |-> IF outcome = "ok" THEN "parsed" ELSE "None"]

\* the commands of the draw.io script, in the order main runs them
KindOrder == <<"pods", "services", "configmaps", "secrets">>

FetchPodShapes ==
  {[health |-> h,
    containers |-> <<Container(<<Port(9000)>>,
                               <<Env(Url(Http, Bill, NsProd, PortFor(Bill)))>>)>>]
     : h \in {Healthy, Crashing}}

\* graphviz script: pods_data = run_kubectl_command("kubectl get pods ...")
KubectlGetPods(outcome) ==
  /\ script = "graphviz" /\ pc = "get_pod_info"
  /\ kubectl.pods = "pending"
  /\ LET r == run_kubectl_command(outcome)
     IN  IF r.raised
         THEN pc' = "crashed" /\ UNCHANGED kubectl
         ELSE kubectl' = [kubectl EXCEPT !.pods = r.data] /\ UNCHANGED pc
  /\ UNCHANGED <<script, pipelineVars, probe, found, item, verdict, stores,
                 all_urls, container, gitlabVars>>

\* graphviz script: the loop of get_pod_info, entered `if pods_data`
FetchedPod(shape) ==
  /\ kubectl.pods = "parsed" /\ kubectl.services = "pending"
  /\ GetPodInfo(shape)

\* graphviz script: services_data = run_kubectl_command("kubectl get services ...")
KubectlGetServices(outcome) ==
  /\ script = "graphviz" /\ pc = "get_pod_info"
  /\ kubectl.pods # "pending" /\ kubectl.services = "pending"
  /\ LET r == run_kubectl_command(outcome)
     IN  IF r.raised
         THEN pc' = "crashed" /\ UNCHANGED kubectl
         ELSE kubectl' = [kubectl EXCEPT !.services = r.data]
              /\ pc' = "get_services"
  /\ UNCHANGED <<script, pipelineVars, probe, found, item, verdict, stores,
                 all_urls, container, gitlabVars>>

\* graphviz script: the loop of get_services, entered `if services_data`
FetchedService(svc) ==
  /\ pc = "get_services" /\ kubectl.services = "parsed"
  /\ GetServices(svc)

FetchedAnalyze ==
  /\ pc = "get_services"
  /\ Analyze

\* draw.io script: get_all_pods(), get_all_services(), get_all_configmaps(),
\* get_all_secrets(), one after the other
DrawioKubectl(kind, outcome) ==
  /\ script = "drawio" /\ pc = "services"
  /\ kubectl[kind] = "pending"
  /\ \A k \in 1..Len(KindOrder) :
       KindOrder[k] = kind => \A j \in 1..(k - 1) : kubectl[KindOrder[j]] # "pending"
  /\ LET r == drawio_run_kubectl_command(outcome)
     IN  IF r.raised
         THEN pc' = "crashed" /\ UNCHANGED kubectl
         ELSE kubectl' = [kubectl EXCEPT ![kind] = r.data] /\ UNCHANGED pc
  /\ UNCHANGED <<script, pipelineVars, probe, found, item, verdict, stores,
                 all_urls, container, gitlabVars>>

\* draw.io script: the loops of main run over the lists that were fetched
FetchedDrawioService(svc) ==
  /\ kubectl.secrets # "pending" /\ kubectl.services = "parsed"
  /\ DrawioService(svc)

FetchedDrawioPod(shape) ==
  /\ kubectl.secrets # "pending" /\ kubectl.pods = "parsed"
  /\ DrawioPod(shape)

FetchedDrawioConfig(data) ==
  /\ kubectl.secrets # "pending" /\ kubectl.configmaps = "parsed"
  /\ DrawioConfig(data)

FetchedDrawioDiagram ==
  /\ kubectl.secrets # "pending"
  /\ DrawioDiagram

NextFetch ==
  \/ \E outcome \in KubectlOutcomes : KubectlGetPods(outcome)
  \/ \E shape \in FetchPodShapes : FetchedPod(shape)
  \/ \E outcome \in KubectlOutcomes : KubectlGetServices(outcome)
  \/ \E svc \in ServicePool : FetchedService(svc)
  \/ FetchedAnalyze
  \/ Generate
  \/ \E kind \in Range(KindOrder), outcome \in DrawioKubectlOutcomes :
       DrawioKubectl(kind, outcome)
  \/ \E svc \in ServicePool : FetchedDrawioService(svc)
  \/ \E shape \in FetchPodShapes : FetchedDrawioPod(shape)
  \/ \E data \in ConfigShapes : FetchedDrawioConfig(data)
  \/ FetchedDrawioDiagram

SpecFetch == Init /\ [][NextFetch]_vars

(***************************************************************************)
(* The Health Classifier alone                                             *)
(***************************************************************************)
Condition(type, status, reason) ==
  [type |-> type, status |-> status, reason |-> Some(reason)]
ConditionPool ==
  {Condition("Ready", "False", "ContainersNotReady"),
   Condition("Ready", "True", "Fine"),
   Condition("PodScheduled", "False", "Unschedulable"),
   Condition("ContainersReady", "False", "ContainersNotReady")}

\* a waiting state where `kubectl get pods -o json` puts it: under state only
CsWaitingNested ==
  [ready |-> FALSE, waiting |-> Absent, terminated |-> Absent,
   state |-> Some([waiting |-> Some(Detail("ErrImagePull", "pull")),
                   terminated |-> Absent])]
StatusPool ==
  {CsReady, CsWaiting, CsTerminated, CsWaitingAndTerminated, CsNoDetail,
   CsWaitingBare, CsWaitingNested}
PhasePool == {Some("Running"), Some("Pending"), Absent}

InitHealth ==
  /\ script \in {"graphviz", "drawio"}
  /\ pc = "classify"
  /\ PipelineInit
  /\ probe = NoProbe /\ found = <<>> /\ verdict = <<>>
  /\ UnitInit
  /\ \E ph \in PhasePool, cs \in SeqsUpTo(ConditionPool, MaxConditions),
        st \in SeqsUpTo(StatusPool, MaxStatuses) :
       item = [name |-> Some(<<"w","1">>), namespace |-> Some(NsProd),
               phase |-> ph, conditions |-> cs, containerStatuses |-> st,
               containers |-> <<>>]

\* graphviz script: get_pod_info on the item
Classify ==
  /\ script = "graphviz" /\ pc = "classify"
  /\ LET r == get_pod_info_item(item)
     IN  verdict' = [unhealthy |-> ~r.healthy,
                     reason |-> IF r.healthy THEN <<>> ELSE r.pod.status_reason,
                     phase |-> IF r.healthy THEN "" ELSE r.pod.phase]
  /\ pc' = "classified"
  /\ UNCHANGED <<script, pipelineVars, probe, found, item, unitVars>>

\* draw.io script: get_pod_status on the item and the unhealthy test of main
DrawioClassify ==
  /\ script = "drawio" /\ pc = "classify"
  /\ LET st == get_pod_status(item)
     IN  verdict' = [unhealthy |-> DrawioUnhealthy(st[1]),
                     status |-> st[1], reason |-> st[2]]
  /\ pc' = "classified"
  /\ UNCHANGED <<script, pipelineVars, probe, found, item, unitVars>>

NextHealth == Classify \/ DrawioClassify

SpecHealth == InitHealth /\ [][NextHealth]_vars

(***************************************************************************)
(* Properties                                                              *)
(***************************************************************************)
NoRepeats(xs) == \A i, j \in 1..Len(xs) : i # j => xs[i] # xs[j]

PodKey(it) == KeyOf(it.name[1], it.namespace[1])

\* C1: after dependency inference the edge list holds no two edges with the
\* same (source, source port, destination, destination port, protocol), in
\* analyze_pod_interactions of the graphviz script and in the connection
\* loop of the draw.io script.
C1_NoDuplicateEdges == NoRepeats(interactions) /\ NoRepeats(connections)

\* C2: every edge produced by dependency inference has a destination key that
\* is a key of the Service map, for edges from workload containers and for
\* edges from configuration-store values, in both scripts.
C2_EdgesResolve ==
  /\ \A e \in Range(interactions) : e.destination \in ServiceKeys(services)
  /\ \A c \in Range(connections) :
       KeyOf(c.target_service, c.target_namespace) \in Range(service_map)

\* what a workload's edges point at
TargetsOf(it) ==
  IF script = "graphviz"
  THEN {<<e.destination, e.destination_port, e.protocol>> :
          e \in {x \in Range(interactions) : x.source = PodKey(it)}}
  ELSE {<<KeyOf(c.target_service, c.target_namespace), c.target_port, c.protocol>> :
          c \in {x \in Range(connections) :
                   x.source_service = it.name[1]
                   /\ x.source_namespace = it.namespace[1]}}

InferenceDone ==
  IF script = "graphviz" THEN pc \in {"analyzed", "done"}
  ELSE pc \in {"pods", "configs", "done"}

IsCrashing(it) ==
  /\ it.phase # Some("Running")
  /\ \E k \in 1..Len(it.containerStatuses) : it.containerStatuses[k] = CsWaiting

BillUrl == Url(Http, Bill, NsProd, PortFor(Bill))
BillKnown == [name |-> Some(Bill), namespace |-> Some(NsProd)] \in Range(services_data)

\* C3: health classification does not change edge inference: two workloads
\* with the same containers have edges to the same (service, port, protocol)
\* whatever their health, and a workload with a non-Running phase and a
\* waiting container that references a known service is in the unhealthy set
\* and still has its edge.
C3_HealthKeepsEdges ==
  InferenceDone =>
    /\ \A i, j \in 1..Len(pods_data) :
         pods_data[i].containers = pods_data[j].containers
           => TargetsOf(pods_data[i]) = TargetsOf(pods_data[j])
    /\ \A i \in 1..Len(pods_data) :
         LET it == pods_data[i]
         IN  (IsCrashing(it) /\ it.containers[1].env[1] = Env(BillUrl) /\ BillKnown)
               => /\ \E u \in Range(unhealthy_pods) : u.name = it.name[1]
                  /\ TargetsOf(it) # {}

\* C4: a workload is classified Healthy if and only if its phase is exactly
\* Running and every container status is ready, in get_pod_info and in
\* get_pod_status with the unhealthy test of main (stated for the workloads
\* that report no False condition).
C4_HealthyIffRunningAndReady ==
  (pc = "classified"
     /\ \A k \in 1..Len(item.conditions) : item.conditions[k].status # "False")
    => (~verdict.unhealthy
          <=> (/\ item.phase = Some("Running")
               /\ \A k \in 1..Len(item.containerStatuses) :
                    item.containerStatuses[k].ready))

\* the reason part of the health record of either script
ReportedReason ==
  IF script = "drawio" THEN verdict.reason
  ELSE IF verdict.reason = <<>> THEN "" ELSE verdict.reason[1]

FalseConditions == {k \in 1..Len(item.conditions) : item.conditions[k].status = "False"}

\* C5: for a workload with a False Ready / PodScheduled / ContainersReady
\* condition and a not-ready container with a waiting state, the reported
\* reason is the reason of the (first) such condition, not the waiting reason.
C5_ConditionBeforeContainer ==
  (/\ pc = "classified"
   /\ FalseConditions # {}
   /\ \E k \in 1..Len(item.containerStatuses) :
        item.containerStatuses[k] \in {CsWaiting, CsWaitingAndTerminated})
    => ReportedReason =
         item.conditions[CHOOSE k \in FalseConditions :
                           \A m \in FalseConditions : k <= m].reason[1]

\* the names of the pool that contain `keycloak` or `auth`
SensitiveNames == {AuthGw}

\* C6: a service node is tagged sensitive if and only if its name contains
\* keycloak or auth, whether or not a workload references it, in
\* generate_topology_graph and in create_drawio_diagram.
C6_SensitiveByName ==
  pc = "done" =>
    /\ \A k \in 1..Len(dot.service_nodes) :
         dot.service_nodes[k].keycloak
           <=> dot.service_nodes[k].label[1] \in SensitiveNames
    /\ \A k \in 1..Len(diagram.service_cells) :
         diagram.service_cells[k].is_keycloak
           <=> diagram.service_cells[k].name \in SensitiveNames

\* C7: the protocol of an extracted reference is HTTPS exactly when the scheme
\* of the URL is https and HTTP exactly when it is http, whatever the service
\* name, namespace and port are.
C7_ProtocolByScheme ==
  pc = "extracted" =>
    \A sch \in {Http, Https}, s \in ServiceNames \cup {Ghost},
       n \in ProbeNamespaces, p \in ProbePorts :
      probe.value = Some(Url(sch, s, n, p))
        => found.protocols = <<IF sch = Https THEN "HTTPS" ELSE "HTTP">>

\* what the decomposition of scheme://s.n.svc.cluster.local[:p] has to be
ExpectedRef(s, n, p) ==
  IF script = "graphviz"
  THEN [ok |-> TRUE, service_name |-> s, namespace |-> n,
        port |-> IF p = <<>> THEN 80 ELSE ParseInt(p)]
  ELSE [ok |-> TRUE, target_service |-> s, target_namespace |-> n,
        target_port |-> IF p = <<>> THEN <<"8","0">> ELSE p]

EndToEnd(s) ==
  /\ services_data = <<[name |-> Some(s), namespace |-> Some(NsProd)]>>
  /\ Len(pods_data) = 1
  /\ pods_data[1].phase = Some("Running")
  /\ pods_data[1].containerStatuses = <<CsReady>>
  /\ pods_data[1].containers =
       <<Container(<<Port(9000)>>, <<Env(Url(Http, s, NsProd, PortFor(s)))>>)>>
  /\ configs_data = <<>>

\* C10: for that snapshot the graph has exactly one service node s.prod
\* (sensitive only if its name contains keycloak/auth), no unhealthy-workload
\* node, and exactly the edge (w1.prod, 9000, s.prod, q, HTTP).
C10_EndToEnd ==
  \A s \in ServiceNames :
    (pc = "done" /\ EndToEnd(s)) =>
      IF script = "graphviz"
      THEN /\ Len(dot.service_nodes) = 1
           /\ dot.service_nodes[1].name = KeyOf(s, NsProd)
           /\ dot.service_nodes[1].keycloak <=> s \in SensitiveNames
           /\ dot.unhealthy_nodes = <<>>
           /\ dot.edges = <<[source |-> PodKey(pods_data[1]),
                             dest |-> KeyOf(s, NsProd),
                             source_port |-> 9000,
                             dest_port |-> ParseInt(PortFor(s)),
                             protocol |-> "HTTP"]>>
      ELSE /\ Len(diagram.service_cells) = 1
           /\ diagram.service_cells[1].name = s
           /\ diagram.service_cells[1].namespace = NsProd
           /\ diagram.service_cells[1].is_keycloak <=> s \in SensitiveNames
           /\ diagram.pod_cells = <<>>
           /\ connections = <<[source_service |-> pods_data[1].name[1],
                               source_namespace |-> NsProd,
                               target_service |-> s,
                               target_namespace |-> NsProd,
                               source_port |-> <<"9","0","0","0">>,
                               target_port |-> PortFor(s),
                               protocol |-> "HTTP"]>>

RECURSIVE Flatten(_, _)
\* the concatenation of the first i sequences of xss
Flatten(xss, i) == IF i = 0 THEN <<>> ELSE Flatten(xss, i - 1) \o xss[i]

\* the text values of a workload in scan order: containers in order, and in a
\* container the environment values, then command tokens, then argument tokens
ValuesOf(it) ==
  Flatten([c \in 1..Len(it.containers) |->
             [e \in 1..Len(it.containers[c].env) |->
                Get(it.containers[c].env[e].value, <<>>)]
               \o Get(it.containers[c].command, <<>>)
               \o Get(it.containers[c].args, <<>>)],
          Len(it.containers))

\* what the run scans, in input order: workloads, then configuration items
Scanned ==
  [i \in 1..Len(pods_data) |->
     [key |-> PodKey(pods_data[i]), values |-> ValuesOf(pods_data[i])]]
  \o [i \in 1..Len(configs_data) |->
        [key |-> PodKey(configs_data[i]), values |-> configs_data[i].data]]

\* source and destination keys of the edges of either script, in list order
EdgeList ==
  IF script = "graphviz"
  THEN [i \in 1..Len(interactions) |->
          [source |-> interactions[i].source, dest |-> interactions[i].destination]]
  ELSE [i \in 1..Len(connections) |->
          [source |-> IF connections[i].source_namespace = <<>>
                      THEN connections[i].source_service
                      ELSE KeyOf(connections[i].source_service,
                                 connections[i].source_namespace),
           dest |-> KeyOf(connections[i].target_service,
                          connections[i].target_namespace)]]

Least(S) == CHOOSE i \in S : \A k \in S : i <= k

\* where an edge is first discovered: <<index of its source in the snapshot,
\* index of the first value of that source that addresses its destination>>
Discovery(e) ==
  LET k == Least({i \in 1..Len(Scanned) : Scanned[i].key = e.source})
      vs == Scanned[k].values
  IN  <<k, Least({m \in 1..Len(vs) : Contains(vs[m], e.dest \o SvcSuffix)})>>

NotAfter(a, b) == a[1] < b[1] \/ (a[1] = b[1] /\ a[2] <= b[2])

IndexInSnapshot(name) == Least({i \in 1..Len(pods_data) : pods_data[i].name = Some(name)})

\* C11: service nodes come in the insertion order of the Service map (the
\* order of the services of the snapshot), unhealthy-workload nodes in the
\* order of the workloads of the snapshot, and edges in first-discovery
\* order: workloads in input order, then their values in scan order, then
\* configuration items; in both scripts.
C11_StableOrder ==
  /\ InferenceDone =>
       LET d == [i \in 1..Len(EdgeList) |-> Discovery(EdgeList[i])]
       IN  \A i \in 1..(Len(d) - 1) : NotAfter(d[i], d[i + 1])
  /\ \A i, j \in 1..Len(unhealthy_pods) :
       i < j => IndexInSnapshot(unhealthy_pods[i].name)
                  < IndexInSnapshot(unhealthy_pods[j].name)
  /\ pc = "done" =>
       IF script = "graphviz"
       THEN /\ [i \in 1..Len(dot.service_nodes) |-> dot.service_nodes[i].name]
                 = [i \in 1..Len(services_data) |->
                      KeyOf(services_data[i].name[1], services_data[i].namespace[1])]
            /\ [i \in 1..Len(dot.unhealthy_nodes) |-> dot.unhealthy_nodes[i].name]
                 = [i \in 1..Len(unhealthy_pods) |->
                      UnhealthyPrefix \o KeyOf(unhealthy_pods[i].name,
                                               unhealthy_pods[i].namespace)]
            /\ [i \in 1..Len(dot.edges) |->
                  [source |-> dot.edges[i].source, dest |-> dot.edges[i].dest]]
                 = EdgeList
       ELSE /\ [i \in 1..Len(diagram.service_cells) |->
                  [name |-> diagram.service_cells[i].name,
                   namespace |-> diagram.service_cells[i].namespace]]
                 = [i \in 1..Len(services_data) |->
                      [name |-> services_data[i].name[1],
                       namespace |-> services_data[i].namespace[1]]]
            /\ [i \in 1..Len(diagram.pod_cells) |-> diagram.pod_cells[i].name]
                 = [i \in 1..Len(unhealthy_pods) |-> unhealthy_pods[i].name]

\* a graph with two service nodes and edges of two different workloads
C11_Witness ==
  /\ pc = "done" /\ script = "graphviz"
  /\ Len(dot.service_nodes) = 2
  /\ Len(dot.edges) >= 2
  /\ dot.edges[1].source # dot.edges[Len(dot.edges)].source
  /\ dot.edges[1].dest # dot.edges[Len(dot.edges)].dest

\* the health records a run keeps for the workloads it has read
Ingested ==
  IF script = "graphviz" THEN Range(pods) \cup Range(unhealthy_pods)
  ELSE Range(unhealthy_pods)

\* C12: a record with a missing field never makes the run fail: a workload or
\* service without a namespace is ingested with namespace "default", a
\* workload without a phase with phase "Unknown", and the records after it
\* are still processed; in get_pod_info / get_services and in the service and
\* pod loops of main of the draw.io script.
C12_MalformedTolerated ==
  /\ pc # "crashed"
  /\ \A i \in 1..Len(services_data) :
       LET key == KeyOf(Get(services_data[i].name, <<"u","n","k","n","o","w","n">>),
                        Get(services_data[i].namespace, NsDefault))
       IN  IF script = "graphviz" THEN key \in ServiceKeys(services)
           ELSE key \in Range(service_map)
  /\ \A i \in 1..Len(pods_data) :
       LET it == pods_data[i]
       IN  /\ script = "graphviz" =>
                \E r \in Ingested : /\ r.name = it.name[1]
                                    /\ r.namespace = Get(it.namespace, NsDefault)
           /\ it.phase = Absent =>
                \E r \in Range(unhealthy_pods) :
                  /\ r.name = it.name[1]
                  /\ r.namespace = Get(it.namespace, NsDefault)
                  /\ IF script = "graphviz" THEN r.phase = "Unknown"
                     ELSE r.status = "Unknown"

\* the text a Secret value of the pool stands for, when it can be decoded
PlainText(value) ==
  IF value = B64BillUrl THEN Some(BillUrl)
  ELSE IF value = B64AuthUrl THEN Some(AuthUrl)
  ELSE Absent

\* the URLs of the pool's configuration texts: a text is a URL or holds none
PoolUrls(text) ==
  IF text \in {BillUrl, AuthUrl, Url(Https, Ghost, GhostNs, <<"4","4","3">>)}
  THEN <<text>> ELSE <<>>

\* the URLs the stores hold, in order: ConfigMap values, then the decodable
\* Secret values
StoreUrls ==
  Flatten([i \in 1..Len(stores.configmaps) |->
             Flatten([k \in 1..Len(stores.configmaps[i].data) |->
                        PoolUrls(stores.configmaps[i].data[k])],
                     Len(stores.configmaps[i].data))],
          Len(stores.configmaps))
  \o Flatten([i \in 1..Len(stores.secrets) |->
                Flatten([k \in 1..Len(stores.secrets[i].data) |->
                           PoolUrls(Get(PlainText(stores.secrets[i].data[k]), <<>>))],
                        Len(stores.secrets[i].data))],
             Len(stores.secrets))

\* service.namespace:port a URL of the pool addresses, as the draw.io script
\* writes it
TargetOfUrl(u) ==
  IF u = BillUrl THEN <<Bill, NsProd, <<"8","0">>>>
  ELSE IF u = AuthUrl THEN <<AuthGw, NsProd, <<"8","0">>>>
  ELSE <<Ghost, GhostNs, <<"4","4","3">>>>

\* the stores hold a Secret value that cannot be decoded
HasUndecodable ==
  \E i \in 1..Len(stores.secrets) :
    \E k \in 1..Len(stores.secrets[i].data) :
      stores.secrets[i].data[k] \in {B64BadPadding, B64NotUtf8}

\* C13: a Secret value that cannot be decoded (invalid base64, or bytes that
\* are not UTF-8) contributes no URL and raises nothing, and the URLs of every
\* other value of the same and of later entries are still extracted; in
\* get_configmaps_and_secrets and in the configuration loop of main of the
\* draw.io script.
C13_UndecodableSkipped ==
  (pc = "config_done" /\ HasUndecodable) =>
    IF script = "graphviz" THEN all_urls = StoreUrls
    ELSE {<<c.target_service, c.target_namespace, c.target_port>> :
            c \in Range(connections)}
           = {TargetOfUrl(u) : u \in Range(StoreUrls)}

\* the items of the stores with the URLs their decoded values hold
StoreItems ==
  [i \in 1..Len(stores.configmaps) |->
     [key |-> PodKey(stores.configmaps[i]),
      urls |-> Flatten([k \in 1..Len(stores.configmaps[i].data) |->
                          PoolUrls(stores.configmaps[i].data[k])],
                       Len(stores.configmaps[i].data))]]
  \o [i \in 1..Len(stores.secrets) |->
        [key |-> PodKey(stores.secrets[i]),
         urls |-> Flatten([k \in 1..Len(stores.secrets[i].data) |->
                             PoolUrls(Get(PlainText(stores.secrets[i].data[k]), <<>>))],
                          Len(stores.secrets[i].data))]]

\* edges whose source is a configuration item: <<source, source port, target>>
ConfigEdges ==
  IF script = "graphviz"
  THEN {<<e.source, e.source_port, e.destination>> :
          e \in {x \in Range(interactions) :
                   x.source \in {StoreItems[i].key : i \in 1..Len(StoreItems)}}}
  ELSE {<<c.source_service, c.source_port,
          <<c.target_service, c.target_namespace, c.target_port>>>> :
          c \in {x \in Range(connections) : x.source_namespace = <<>>}}

\* C19: every edge inferred from a ConfigMap or Secret value carries the
\* source port "N/A", never a number, and there is such an edge for each URL
\* in the decoded text of each value.
C19_ConfigEdgesSentinel ==
  pc = "config_done" =>
    /\ \A e \in ConfigEdges : e[2] = NotApplicable
    /\ \A i \in 1..Len(StoreItems) :
         \A u \in Range(StoreItems[i].urls) :
           \E e \in ConfigEdges :
             /\ e[1] = StoreItems[i].key
             /\ e[3] = IF script = "graphviz"
                       THEN KeyOf(TargetOfUrl(u)[1], TargetOfUrl(u)[2])
                       ELSE TargetOfUrl(u)

\* the (reason, message) pair of the health record: the draw.io script returns
\* it as the pair of get_pod_status, the graphviz script formats it into
\* status_reason
ReasonPair ==
  IF script = "drawio" THEN <<verdict.status, verdict.reason>>
  ELSE IF verdict.reason = <<>> THEN <<"", "">>
  ELSE <<verdict.reason[1], verdict.reason[3]>>

\* the state of a container status as `kubectl get pods -o json` writes it
StateOf(cs) == Get(cs.state, [waiting |-> Absent, terminated |-> Absent])

\* a not-ready container status with a waiting or a terminated state
HasDetail(cs) ==
  ~cs.ready /\ (Has(StateOf(cs).waiting) \/ Has(StateOf(cs).terminated))

\* the pair such a status stands for: waiting before terminated
ExpectedDetail(cs) ==
  IF Has(StateOf(cs).waiting)
  THEN <<Get(StateOf(cs).waiting[1].reason, "Unknown"),
         Get(StateOf(cs).waiting[1].message, "")>>
  ELSE <<Get(StateOf(cs).terminated[1].reason, "Terminated"),
         Get(StateOf(cs).terminated[1].message, "")>>

WithDetail == {k \in 1..Len(item.containerStatuses) : HasDetail(item.containerStatuses[k])}
NotReady == {k \in 1..Len(item.containerStatuses) : ~item.containerStatuses[k].ready}

\* C14: when several containers are not ready, the reported reason and message
\* are those of the first not-ready container, in declaration order, that has
\* a waiting or terminated state; a later one never overrides it (stated for
\* workloads without a False condition whose states both scripts read).
C14_FirstNotReadyWins ==
  (/\ pc = "classified"
   /\ FalseConditions = {}
   /\ Cardinality(WithDetail) >= 2
   /\ CsWaitingNested \notin Range(item.containerStatuses))
    => ReasonPair = ExpectedDetail(item.containerStatuses[Least(WithDetail)])

\* C15: for a not-ready container the waiting state goes before the
\* terminated state: with a waiting state the reason is its reason ("Unknown"
\* without one) and the message its message; without a waiting state the
\* terminated state is used, with reason "Terminated" by default (stated for
\* workloads with one not-ready container and no False condition).
C15_WaitingBeforeTerminated ==
  (/\ pc = "classified"
   /\ FalseConditions = {}
   /\ Cardinality(NotReady) = 1
   /\ NotReady = WithDetail)
    => ReasonPair = ExpectedDetail(item.containerStatuses[Least(NotReady)])

\* C16: for a workload whose phase is not Running, without a False condition
\* and without a container status that has a waiting or terminated state, the
\* reason of the health record is the phase itself.
C16_PhaseAsReason ==
  (/\ pc = "classified"
   /\ FalseConditions = {}
   /\ item.phase # Some("Running")
   /\ WithDetail = {})
    => ReasonPair[1] = Get(item.phase, "Unknown")

\* source ports of the edges of the scanned container
SourcePorts ==
  IF script = "graphviz" THEN {e.source_port : e \in Range(interactions)}
  ELSE {c.source_port : c \in Range(connections)}

\* C17: the source port of every edge inferred from a container is the first
\* declared port of the container, or 8080 when it declares none, in
\* analyze_pod_interactions and in the connection loop of the draw.io script
\* (which writes ports as text).
C17_SourcePort ==
  pc = "scanned" =>
    LET first == IF container.ports = <<>> THEN 8080
                 ELSE container.ports[1].containerPort[1]
    IN  \A sp \in SourcePorts :
          sp = IF script = "graphviz" THEN first ELSE IntToStr(first)

\* destinations of the edges of the scanned container
Destinations ==
  IF script = "graphviz" THEN {e.destination : e \in Range(interactions)}
  ELSE {KeyOf(c.target_service, c.target_namespace) : c \in Range(connections)}

\* C18: a resolvable service URL in a command token or in an argument token
\* of a container yields the edge it yields in an environment value, in both
\* scripts.
C18_AllThreeSources ==
  pc = "scanned" =>
    \A ports \in PortShapes, source \in ContainerSources :
      /\ container = ContainerWith(ports, source, Url(Http, Bill, NsProd, PortFor(Bill)))
           => Destinations = {KeyOf(Bill, NsProd)}
      /\ container = ContainerWith(ports, source, Wrap(Url(Https, AuthGw, NsProd, <<>>)))
           => Destinations = {KeyOf(AuthGw, NsProd)}

\* C20: a value holding HTTP://s.n.svc.cluster.local[:p] or
\* Https://s.n.svc.cluster.local[:p] is extracted whole and decomposed into
\* the service, namespace and port of its lowercase form, in both scripts.
C20_SchemeCaseInsensitive ==
  pc = "extracted" =>
    \A sch \in {HttpUpper, HttpsMixed}, s \in ServiceNames \cup {Ghost},
       n \in ProbeNamespaces, p \in ProbePorts :
      probe.value = Some(Url(sch, s, n, p))
        => /\ found.urls = <<Url(sch, s, n, p)>>
           /\ found.refs = <<ExpectedRef(s, n, p)>>

\* node cells of the diagram
NodeCells == Range(diagram.service_cells) \cup Range(diagram.pod_cells)
\* the cell an attribute names is a node cell made for the key
NamesCellOf(ref, key) ==
  \E cell \in NodeCells : cell.id = ref /\ KeyOf(cell.name, cell.namespace) = key

\* C21: in create_drawio_diagram the source and the target attribute of every
\* edge cell name the id of a node cell, and that cell was made for the source
\* key and for the target key of the connection of the edge.
C21_EdgeEndsAreNodes ==
  pc = "drawn" =>
    \A e \in diagram.edge_cells :
      LET c == connections[e.id[2] + 1]
      IN  /\ NamesCellOf(e.source, KeyOf(c.source_service, c.source_namespace))
          /\ NamesCellOf(e.target, KeyOf(c.target_service, c.target_namespace))

\* keys of sensitive services that are the destination of an edge
SensitiveDestinations ==
  {e.destination : e \in {x \in Range(interactions) :
                            IsKeycloakName(SplitFirstDot(x.destination)[1])}}

\* C22: keycloak_related of analyze_pod_interactions holds each service key
\* at most once and only keys of the services dict, so its length, the number
\* main reports, is the number of distinct sensitive services that are the
\* destination of an edge.
C22_KeycloakRelatedDistinct ==
  (script = "graphviz" /\ pc \in {"analyzed", "done"}) =>
    /\ NoRepeats(keycloak_related)
    /\ Range(keycloak_related) \subseteq ServiceKeys(services)
    /\ Len(keycloak_related) = Cardinality(SensitiveDestinations)

\* a page request that lets the loop go on: status 200 and a non-empty page
GoesOn(r) == r.outcome = "status" /\ r.status = 200 /\ r.body # <<>>
\* the pages received, one after the other
Received ==
  Flatten([i \in 1..Len(responses) |-> responses[i].body], Len(responses))

\* the state part of C23
ProjectsSafety ==
  script = "search" =>
    /\ \A i \in 1..Len(responses) : responses[i].page = i
    /\ \A i \in 1..(Len(responses) - 1) : GoesOn(responses[i])
    /\ pc = "paging" => \A i \in 1..Len(responses) : GoesOn(responses[i])
    /\ pc = "returned" =>
         IF user_response = StatusResponse(200)
         THEN /\ responses # <<>>
              /\ ~GoesOn(responses[Len(responses)])
              /\ returned = Some(Received)
         ELSE /\ responses = <<>>
              /\ returned = Some(MockProjects)

\* C23: get_all_projects returns the three mock projects without a page
\* request when the authentication probe answers a status other than 200 or
\* raises; otherwise it requests pages 1, 2, 3, ... in this order, stops at
\* the first empty page, status other than 200 or request error, and returns
\* the pages received before the stop, one after the other; and it returns
\* whenever the server at last sends an empty page or a status other than 200.
C23_GetAllProjects == []ProjectsSafety /\ <>(pc = "returned")

\* a run that received two different pages and then an empty one
C23_Witness ==
  /\ pc = "returned"
  /\ Len(responses) = 3
  /\ responses[1].body = <<Project(11), Project(12)>>
  /\ responses[2].body = <<Project(10)>>
  /\ responses[3] = PageResponse(3, StatusResponse(200), <<>>)
  /\ returned = Some(<<Project(11), Project(12), Project(10)>>)

\* the kubectl command of a resource kind failed
Failed(kind) == kubectl[kind] = "None"
\* pods of the snapshot that are not Running
NotRunning == {i \in 1..Len(pods_data) : pods_data[i].phase # Some("Running")}

\* C24: a kubectl command that exits non-zero, times out or prints
\* unparseable JSON never raises and leaves its resource kind empty; the
\* other kinds are still fetched and their items are in the output; and from
\* an empty inventory come no edges and no unhealthy workloads.
C24_FailedFetchIsEmpty ==
  /\ pc # "crashed"
  /\ Failed("pods") =>
       /\ pods_data = <<>> /\ pods = <<>> /\ unhealthy_pods = <<>>
       /\ interactions = <<>>
       /\ \A c \in Range(connections) : c.source_namespace = <<>>
  /\ Failed("services") =>
       /\ services_data = <<>> /\ services = <<>> /\ service_list = <<>>
       /\ interactions = <<>>
  /\ Failed("configmaps") =>
       /\ configs_data = <<>>
       /\ \A c \in Range(connections) : c.source_namespace # <<>>
  /\ pc = "done" =>
       /\ kubectl.pods # "pending" /\ kubectl.services # "pending"
       /\ script = "drawio" =>
            kubectl.configmaps # "pending" /\ kubectl.secrets # "pending"
       /\ Len(dot.service_nodes) + Len(diagram.service_cells) = Len(services_data)
       /\ Len(dot.unhealthy_nodes) + Len(diagram.pod_cells) = Cardinality(NotRunning)
  /\ (pods_data = <<>> /\ services_data = <<>> /\ configs_data = <<>>) =>
       /\ interactions = <<>> /\ connections = <<>> /\ unhealthy_pods = <<>>
       /\ dot.edges = <<>> /\ diagram.edge_cells = {}

\* a run of the graphviz script whose pod command failed and whose service
\* command gave two services: both are in the graph
C24_Witness ==
  /\ script = "graphviz" /\ pc = "done"
  /\ Failed("pods") /\ kubectl.services = "parsed"
  /\ Len(services_data) = 2
  /\ Len(dot.service_nodes) = 2
  /\ dot.edges = <<>> /\ dot.unhealthy_nodes = <<>>

\* name and namespace of a service item as get_services stores them
StoredPair(svc) ==
  <<Get(svc.name, <<"u","n","k","n","o","w","n">>), Get(svc.namespace, NsDefault)>>

\* C25: in the graphviz script the key `name.namespace` of every stored
\* service splits at its first dot into the stored name and namespace in
\* generate_topology_graph, and services with different (name, namespace)
\* have different keys, each its own entry of the dict.
C25_ServiceKeyRoundTrip ==
  script = "graphviz" =>
    /\ Len(services) = Cardinality({StoredPair(svc) : svc \in Range(services_data)})
    /\ \A i, j \in 1..Len(services) :
         <<services[i].name, services[i].namespace>>
             # <<services[j].name, services[j].namespace>>
           => services[i].key # services[j].key
    /\ pc = "done" =>
         /\ Len(dot.service_nodes) = Len(services)
         /\ \A k \in 1..Len(services) :
              dot.service_nodes[k].label
                = <<services[k].name, services[k].namespace>>

\* a graph with two services, one stored under the default namespace
C25_Witness ==
  /\ script = "graphviz" /\ pc = "done"
  /\ Len(services) = 2
  /\ \E k \in 1..2 :
       /\ services[k].key = AuthGw \o <<".">> \o NsDefault
       /\ dot.service_nodes[k].label = <<AuthGw, NsDefault>>

====
